---- MODULE Spec2Model ----
(***************************************************************************)
(* Model of the PII detection / data quality pipeline:                     *)
(*   src/src/cleaner.py    field normalizers and DataCleaner.clean_data    *)
(*   src/src/validators.py DataValidator                                   *)
(*   src/src/pipeline.py   DataPipeline.execute and its eight stages       *)
(*   src/main.py           main and the process exit status                *)
(* Text values are sequences of one-character strings, so that stripping,  *)
(* case conversion, digit extraction and date parsing are computed the way *)
(* the Python code computes them.                                          *)
(***************************************************************************)
EXTENDS Integers, Sequences, FiniteSets, TLC

\* ------------------------------------------------------------------ bounds
\* longest dataset drawn from the core rows
MaxRows == 2
\* longest free-form text drawn for a single field
MaxLen == 3

\* -------------------------------------------------------------- characters
DigitChars == <<"0", "1", "2", "3", "4", "5", "6", "7", "8", "9">>

LowerChars == <<"a", "b", "c", "d", "e", "f", "g", "h", "i", "j", "k", "l", "m", "n", "o", "p", "q", "r", "s", "t", "u", "v", "w", "x", "y", "z">>

UpperChars == <<"A", "B", "C", "D", "E", "F", "G", "H", "I", "J", "K", "L", "M", "N", "O", "P", "Q", "R", "S", "T", "U", "V", "W", "X", "Y", "Z">>

IsDigit(c) == \E i \in 1..10 : DigitChars[i] = c

DigitVal(c) == (CHOOSE i \in 1..10 : DigitChars[i] = c) - 1

IsLower(c) == \E i \in 1..26 : LowerChars[i] = c

IsUpper(c) == \E i \in 1..26 : UpperChars[i] = c

IsCased(c) == IsLower(c) \/ IsUpper(c)

IsSpace(c) == c \in {" ", "\t"}

ToLower(c) == IF IsUpper(c) THEN LowerChars[CHOOSE i \in 1..26 : UpperChars[i] = c] ELSE c

ToUpper(c) == IF IsLower(c) THEN UpperChars[CHOOSE i \in 1..26 : LowerChars[i] = c] ELSE c

\* ---------------------------------------------------------- str operations
\* str.lower()
Lower(s) == [i \in 1..Len(s) |-> ToLower(s[i])]

\* str.title(): a cased character is upper-cased when the character before
\* it is not cased, lower-cased otherwise
Title(s) == [i \in 1..Len(s) |->
               IF i > 1 /\ IsCased(s[i - 1]) THEN ToLower(s[i]) ELSE ToUpper(s[i])]

RECURSIVE LStrip(_)
LStrip(s) == IF s # <<>> /\ IsSpace(Head(s)) THEN LStrip(Tail(s)) ELSE s

RECURSIVE RStrip(_)
RStrip(s) == IF s # <<>> /\ IsSpace(s[Len(s)]) THEN RStrip(SubSeq(s, 1, Len(s) - 1)) ELSE s

\* str.strip()
Strip(s) == RStrip(LStrip(s))

\* re.sub(r'\D', '', s)
OnlyDigits(s) == SelectSeq(s, IsDigit)

IsDigitOrDot(c) == IsDigit(c) \/ c = "."

\* re.sub(r'[^\d.]', '', s)
OnlyDigitsAndDots(s) == SelectSeq(s, IsDigitOrDot)

IsDot(c) == c = "."

RECURSIVE DigitsToNat(_)
\* value of a run of decimal digits (0 for the empty run)
DigitsToNat(s) == IF s = <<>> THEN 0
                  ELSE 10 * DigitsToNat(SubSeq(s, 1, Len(s) - 1)) + DigitVal(s[Len(s)])

RECURSIVE NatToDigits(_)
\* str(n) for n >= 0
NatToDigits(n) == IF n < 10 THEN <<DigitChars[n + 1]>>
                  ELSE NatToDigits(n \div 10) \o <<DigitChars[(n % 10) + 1]>>

\* zero-padded two-digit field of strftime (%m, %d)
TwoDigits(n) == <<DigitChars[(n \div 10) + 1], DigitChars[(n % 10) + 1]>>

RECURSIVE SplitOn(_, _)
\* str.split(sep) for a one-character separator
SplitOn(s, sep) ==
  IF \A i \in 1..Len(s) : s[i] # sep THEN <<s>>
  ELSE LET p == CHOOSE i \in 1..Len(s) : s[i] = sep /\ \A j \in 1..(i - 1) : s[j] # sep
       IN <<SubSeq(s, 1, p - 1)>> \o SplitOn(SubSeq(s, p + 1, Len(s)), sep)

\* ------------------------------------------------------------------ values
\* A cell of the DataFrame: text, a Python int, NaN (missing), or None.
Str(s) == [k |-> "str", s |-> s, n |-> 0]

IntV(n) == [k |-> "int", s |-> <<>>, n |-> n]

NaN == [k |-> "nan", s |-> <<>>, n |-> 0]

None == [k |-> "none", s |-> <<>>, n |-> 0]

\* an exception propagating out of a call
Raised == [k |-> "raise", s |-> <<>>, n |-> 0]

\* pd.isna(v)
isna(v) == v.k \in {"nan", "none"}

\* Python truthiness, negated: `not v`
Falsy(v) == \/ v.k = "str" /\ v.s = <<>>
            \/ v.k = "int" /\ v.n = 0
            \/ v.k = "none"

\* str(v)
PyStr(v) == CASE v.k = "str" -> v.s
              [] v.k = "int" -> IF v.n < 0 THEN <<"-">> \o NatToDigits(0 - v.n) ELSE NatToDigits(v.n)
              [] v.k = "nan" -> <<"n", "a", "n">>
              [] OTHER -> <<"N", "o", "n", "e">>

UNKNOWN == <<"[", "U", "N", "K", "N", "O", "W", "N", "]">>

S_invalid_date == <<"i", "n", "v", "a", "l", "i", "d", "_", "d", "a", "t", "e">>

S_nan == <<"n", "a", "n">>

S_unknown == <<"u", "n", "k", "n", "o", "w", "n">>

\* ------------------------------------------------- cleaner.py: normalizers
\* f"{d[0:3]}-{d[3:6]}-{d[6:10]}" for ten digits d
Group334(d) == SubSeq(d, 1, 3) \o <<"-">> \o SubSeq(d, 4, 6) \o <<"-">> \o SubSeq(d, 7, 10)

\* the guard shared by the normalizers: pd.isna(x) or not x or str(x).strip() == ''
IsMissing(v) == isna(v) \/ Falsy(v) \/ Strip(PyStr(v)) = <<>>

\* normalize_phone that forgets to group the last ten of more than ten digits
normalize_phone_ungrouped(phone) ==
  IF IsMissing(phone) THEN Str(UNKNOWN)
  ELSE LET digits == OnlyDigits(PyStr(phone))
           n == Len(digits)
       IN IF n = 10 THEN Str(Group334(digits))
          ELSE IF n = 11 /\ digits[1] = "1" THEN Str(Group334(SubSeq(digits, 2, 11)))
          ELSE IF n > 10 THEN Str(SubSeq(digits, n - 9, n))
          ELSE Str(PyStr(phone))

\* normalize_phone that keeps the first ten of more than ten digits
normalize_phone_first_ten(phone) ==
  IF IsMissing(phone) THEN Str(UNKNOWN)
  ELSE LET digits == OnlyDigits(PyStr(phone))
           n == Len(digits)
       IN IF n = 10 THEN Str(Group334(digits))
          ELSE IF n = 11 /\ digits[1] = "1" THEN Str(Group334(SubSeq(digits, 2, 11)))
          ELSE IF n > 10 THEN Str(Group334(SubSeq(digits, 1, 10)))
          ELSE Str(PyStr(phone))

normalize_phone(phone) ==
  IF IsMissing(phone) THEN Str(UNKNOWN)
  ELSE LET digits == OnlyDigits(PyStr(phone))
           n == Len(digits)
       IN IF n = 10 THEN Str(Group334(digits))
          ELSE IF n = 11 /\ digits[1] = "1" THEN Str(Group334(SubSeq(digits, 2, 11)))
          ELSE IF n > 10 THEN Str(Group334(SubSeq(digits, n - 9, n)))
          ELSE Str(PyStr(phone))

\* the strptime directives: %Y is \d\d\d\d
MatchesY(p) == Len(p) = 4 /\ \A i \in 1..4 : IsDigit(p[i])

\* %m is 1[0-2]|0[1-9]|[1-9]
MatchesM(p) == \/ Len(p) = 2 /\ p[1] = "1" /\ p[2] \in {"0", "1", "2"}
               \/ Len(p) = 2 /\ p[1] = "0" /\ IsDigit(p[2]) /\ p[2] # "0"
               \/ Len(p) = 1 /\ IsDigit(p[1]) /\ p[1] # "0"

\* %d is 3[01]|[12]\d|0[1-9]|[1-9]| [1-9]
MatchesD(p) == \/ Len(p) = 2 /\ p[1] = "3" /\ p[2] \in {"0", "1"}
               \/ Len(p) = 2 /\ p[1] \in {"1", "2"} /\ IsDigit(p[2])
               \/ Len(p) = 2 /\ p[1] \in {"0", " "} /\ IsDigit(p[2]) /\ p[2] # "0"
               \/ Len(p) = 1 /\ IsDigit(p[1]) /\ p[1] # "0"

IsLeap(y) == (y % 4 = 0 /\ y % 100 # 0) \/ y % 400 = 0

DaysInMonth(y, m) == IF m = 2 THEN (IF IsLeap(y) THEN 29 ELSE 28)
                     ELSE IF m \in {4, 6, 9, 11} THEN 30 ELSE 31

\* the five formats of normalize_date, in the order they are tried; each is
\* a separator and the positions of year, month and day among the parts
formats == << [sep |-> "-", y |-> 1, m |-> 2, d |-> 3],
              [sep |-> "/", y |-> 3, m |-> 1, d |-> 2],
              [sep |-> "/", y |-> 3, m |-> 2, d |-> 1],
              [sep |-> "/", y |-> 1, m |-> 2, d |-> 3],
              [sep |-> "-", y |-> 3, m |-> 1, d |-> 2] >>

\* datetime.strptime(s, fmt): the parsed date, or Raised for ValueError
strptime(s, fmt) ==
  LET parts == SplitOn(s, fmt.sep)
  IN IF Len(parts) # 3 THEN Raised
     ELSE IF ~(MatchesY(parts[fmt.y]) /\ MatchesM(parts[fmt.m]) /\ MatchesD(parts[fmt.d]))
     THEN Raised
     ELSE LET year == DigitsToNat(parts[fmt.y])
              month == DigitsToNat(parts[fmt.m])
              day == DigitsToNat(OnlyDigits(parts[fmt.d]))
          IN IF year < 1 \/ day > DaysInMonth(year, month) THEN Raised
             ELSE [k |-> "date", y |-> year, m |-> month, d |-> day]

\* parsed.strftime('%Y-%m-%d') (the C library does not pad %Y)
strftime(dt) == NatToDigits(dt.y) \o <<"-">> \o TwoDigits(dt.m) \o <<"-">> \o TwoDigits(dt.d)

RECURSIVE TryFormats(_, _)
\* the loop over formats: first format that parses wins, None when none does
TryFormats(s, i) ==
  IF i > Len(formats) THEN None
  ELSE LET parsed == strptime(s, formats[i])
       IN IF parsed.k = "date" THEN Str(strftime(parsed)) ELSE TryFormats(s, i + 1)

normalize_date(date_str) ==
  IF \/ IsMissing(date_str)
     \/ Lower(PyStr(date_str)) = S_invalid_date
     \/ Lower(PyStr(date_str)) = S_nan
  THEN None
  ELSE TryFormats(Strip(PyStr(date_str)), 1)

normalize_name(name) ==
  IF IsMissing(name) THEN Str(UNKNOWN) ELSE Str(Title(Strip(PyStr(name))))

normalize_email(email) ==
  IF IsMissing(email) THEN Str(UNKNOWN) ELSE Str(Lower(Strip(PyStr(email))))

\* int(float(t)) for a text t of digits and dots: float() raises ValueError
\* unless t has a digit and at most one dot; int() truncates
IntOfFloat(t) ==
  IF OnlyDigits(t) = <<>> \/ Len(SelectSeq(t, IsDot)) > 1 THEN Raised
  ELSE IntV(DigitsToNat(OnlyDigits(SplitOn(t, ".")[1])))

IsDigitDotOrMinus(c) == IsDigitOrDot(c) \/ c = "-"

\* normalize_income that keeps the sign: re.sub(r'[^\d.-]', '', ...)
normalize_income_signed(income) ==
  IF IsMissing(income) \/ Strip(PyStr(income)) = S_nan THEN IntV(0)
  ELSE LET t == SelectSeq(PyStr(income), IsDigitDotOrMinus)
           r == IF t # <<>> /\ t[1] = "-" THEN IntOfFloat(Tail(t)) ELSE IntOfFloat(t)
       IN IF r = Raised \/ (\E i \in 2..Len(t) : t[i] = "-") THEN IntV(0)
          ELSE IF t[1] = "-" THEN IntV(0 - r.n) ELSE r

\* normalize_income without its try/except: the parse error propagates
normalize_income_unguarded(income) ==
  IF IsMissing(income) \/ Strip(PyStr(income)) = S_nan THEN IntV(0)
  ELSE IntOfFloat(OnlyDigitsAndDots(PyStr(income)))

normalize_income(income) ==
  IF IsMissing(income) \/ Strip(PyStr(income)) = S_nan THEN IntV(0)
  ELSE LET r == IntOfFloat(OnlyDigitsAndDots(PyStr(income)))
       IN IF r = Raised THEN IntV(0) ELSE r

valid_statuses == {<<"a", "c", "t", "i", "v", "e">>,
                   <<"i", "n", "a", "c", "t", "i", "v", "e">>,
                   <<"s", "u", "s", "p", "e", "n", "d", "e", "d">>}

normalize_account_status(status) ==
  IF IsMissing(status) \/ Strip(PyStr(status)) = S_nan THEN Str(S_unknown)
  ELSE LET st == Lower(Strip(PyStr(status)))
       IN IF st \in valid_statuses THEN Str(st) ELSE Str(S_unknown)

\* ------------------------------------------------ cleaner.py: clean_data
\* the fixed ten-column schema
expected_cols == <<"customer_id", "first_name", "last_name", "email", "phone",
                   "date_of_birth", "address", "income", "account_status", "created_date">>

HasCol(cols, c) == \E i \in 1..Len(cols) : cols[i] = c

HasCols(cols, cs) == \A c \in cs : HasCol(cols, c)

\* Python's != on two cells (NaN is unequal to everything)
PyNe(a, b) == a.k = "nan" \/ b.k = "nan" \/ a # b

\* number of TRUE entries of a sequence of flags
CountTrue(flags) == Cardinality({i \in 1..Len(flags) : flags[i]})

\* the columns the normalization loops read and write
clean_loop_cols == {"phone", "date_of_birth", "created_date", "first_name",
                    "last_name", "income", "email", "account_status"}

\* the date loop's update of one cell: kept as is when normalize_date gives None
DateCell(v) == IF normalize_date(v) = None THEN v ELSE normalize_date(v)

\* one record after the six normalization loops
CleanRow(r) ==
  [r EXCEPT !.phone = normalize_phone(r.phone),
            !.date_of_birth = DateCell(r.date_of_birth),
            !.created_date = DateCell(r.created_date),
            !.first_name = normalize_name(r.first_name),
            !.last_name = normalize_name(r.last_name),
            !.income = normalize_income(r.income),
            !.email = normalize_email(r.email),
            !.account_status = normalize_account_status(r.account_status)]

phone_changed(r) == PyNe(r.phone, normalize_phone(r.phone)) /\ ~isna(r.phone)

dob_changed(r) == normalize_date(r.date_of_birth) # None
                  /\ PyNe(r.date_of_birth, normalize_date(r.date_of_birth))

created_changed(r) == normalize_date(r.created_date) # None
                      /\ PyNe(r.created_date, normalize_date(r.created_date))

fname_changed(r) == PyNe(r.first_name, normalize_name(r.first_name)) /\ ~isna(r.first_name)

lname_changed(r) == PyNe(r.last_name, normalize_name(r.last_name)) /\ ~isna(r.last_name)

income_changed(r) == PyStr(r.income) # PyStr(normalize_income(r.income))

email_changed(r) == PyNe(r.email, normalize_email(r.email)) /\ ~isna(r.email)

status_changed(r) == Lower(PyStr(r.account_status)) # normalize_account_status(r.account_status).s

\* the change counters of the six loops
ChangeCounts(rows) ==
  [phone_format |-> CountTrue([i \in 1..Len(rows) |-> phone_changed(rows[i])]),
   date_format |-> CountTrue([i \in 1..Len(rows) |-> dob_changed(rows[i])]) + CountTrue([i \in 1..Len(rows) |-> created_changed(rows[i])]),
   name_case |-> CountTrue([i \in 1..Len(rows) |-> fname_changed(rows[i])]) + CountTrue([i \in 1..Len(rows) |-> lname_changed(rows[i])]),
   income_numeric |-> CountTrue([i \in 1..Len(rows) |-> income_changed(rows[i])]),
   email_lowercase |-> CountTrue([i \in 1..Len(rows) |-> email_changed(rows[i])]),
   account_status |-> CountTrue([i \in 1..Len(rows) |-> status_changed(rows[i])])]

\* cleaning_stats['normalization_actions']: a category is entered only when
\* its counter is positive
Positive(c) == [a \in {x \in DOMAIN c : c[x] > 0} |-> c[a]]

normalization_actions(rows) == Positive(ChangeCounts(rows))

S_None == <<"N", "o", "n", "e">>

\* the three filters of the row-drop policy
KeepRow(r) == /\ ~isna(r.date_of_birth)
              /\ r.date_of_birth # Str(<<>>)
              /\ r.date_of_birth # Str(S_None)

\* rows_dropped taken from the date loop's count of unparseable birth dates
rows_dropped_by_date_count(rows, cleaned_df) ==
  Cardinality({i \in 1..Len(rows) : normalize_date(rows[i].date_of_birth) = None})

\* rows_dropped = rows_before - len(cleaned_df), rows_before being the row
\* count before the filters
rows_dropped(rows, cleaned_df) == Len(rows) - Len(cleaned_df)

\* KeyError, or an exception out of a normalizer, anywhere in clean_data
clean_raises(cols, rows) ==
  \/ ~HasCol(cols, "date_of_birth")
  \/ rows # <<>> /\ ~HasCols(cols, clean_loop_cols)
  \/ \E i \in 1..Len(rows) : normalize_income(rows[i].income) = Raised

\* clean_data's return value: the filtered frame and self.cleaning_stats
cleaned(cols, rows, cleaned_df) ==
  [raised |-> FALSE,
   cols |-> cols,
   df |-> cleaned_df,
   stats |-> [rows_processed |-> Len(rows),
              rows_dropped |-> rows_dropped(rows, cleaned_df),
              normalization_actions |-> normalization_actions(rows),
              missing_value_actions |-> <<>>,
              rows_remaining |-> Len(cleaned_df)]]

clean_data(cols, rows) ==
  IF clean_raises(cols, rows)
  THEN [raised |-> TRUE, cols |-> <<>>, df |-> <<>>, stats |-> <<>>]
  ELSE cleaned(cols, rows, SelectSeq([i \in 1..Len(rows) |-> CleanRow(rows[i])], KeepRow))

\* ----------------------------------------------------------- input data
\* a record of the dataset: the ten schema fields, given as text
Row(cid, fn, ln, em, ph, dob, addr, inc, st, cr) ==
  [customer_id |-> Str(cid), first_name |-> Str(fn), last_name |-> Str(ln),
   email |-> Str(em), phone |-> Str(ph), date_of_birth |-> Str(dob),
   address |-> Str(addr), income |-> Str(inc), account_status |-> Str(st),
   created_date |-> Str(cr)]

\* the five-record raw fixture of the test suite
sample_raw_data == <<
  Row(<<"1">>,
      <<"J", "o", "h", "n">>,
      <<"D", "o", "e">>,
      <<"j", "o", "h", "n", "@", "e", "x", "a", "m", "p", "l", "e", ".", "c", "o", "m">>,
      <<"5", "5", "5", "-", "1", "2", "3", "-", "4", "5", "6", "7">>,
      <<"1", "9", "8", "5", "-", "0", "3", "-", "1", "5">>,
      <<"1", "2", "3", " ", "M", "a", "i", "n", " ", "S", "t">>,
      <<"7", "5", "0", "0", "0">>,
      <<"a", "c", "t", "i", "v", "e">>,
      <<"2", "0", "2", "4", "-", "0", "1", "-", "1", "0">>),
  Row(<<"2">>,
      <<"j", "a", "n", "e">>,
      <<"S", "m", "i", "t", "h">>,
      <<"j", "a", "n", "e", "@", "e", "x", "a", "m", "p", "l", "e", ".", "c", "o", "m">>,
      <<"5", "5", "5", ".", "9", "8", "7", ".", "6", "5", "4", "3">>,
      <<"1", "9", "9", "0", "-", "0", "7", "-", "2", "2">>,
      <<"4", "5", "6", " ", "O", "a", "k", " ", "A", "v", "e">>,
      <<"9", "5", "0", "0", "0">>,
      <<"a", "c", "t", "i", "v", "e">>,
      <<"2", "0", "2", "4", "-", "0", "1", "-", "1", "1">>),
  Row(<<"3">>,
      <<>>,
      <<"J", "o", "h", "n", "s", "o", "n">>,
      <<"b", "o", "b", "@", "e", "x", "a", "m", "p", "l", "e", ".", "c", "o", "m">>,
      <<"(", "5", "5", "5", ")", " ", "2", "3", "4", "-", "5", "6", "7", "8">>,
      <<"1", "9", "8", "8", "-", "1", "1", "-", "0", "8">>,
      <<>>,
      <<>>,
      <<"s", "u", "s", "p", "e", "n", "d", "e", "d">>,
      <<"2", "0", "2", "4", "-", "0", "1", "-", "1", "2">>),
  Row(<<"4">>,
      <<"M", "a", "r", "y">>,
      <<"B", "r", "o", "w", "n">>,
      <<"m", "a", "r", "y", "@", "e", "x", "a", "m", "p", "l", "e", ".", "c", "o", "m">>,
      <<"5", "5", "5", "4", "3", "5", "6", "7", "8", "9">>,
      <<"0", "5", "/", "1", "0", "/", "1", "9", "7", "5">>,
      <<"7", "8", "9", " ", "P", "i", "n", "e", " ", "R", "d">>,
      <<"1", "2", "0", "0", "0", "0">>,
      <<>>,
      <<"2", "0", "2", "4", "-", "0", "1", "-", "1", "3">>),
  Row(<<"5">>,
      <<"R", "o", "b", "e", "r", "t">>,
      <<>>,
      <<"r", "o", "b", "e", "r", "t", "@", "e", "x", "a", "m", "p", "l", "e", ".", "c", "o", "m">>,
      <<"5", "5", "5", "-", "4", "5", "6", "-", "7", "8", "9", "0">>,
      <<"i", "n", "v", "a", "l", "i", "d", "_", "d", "a", "t", "e">>,
      <<"8", "9", "2", " ", "E", "l", "m", " ", "S", "t">>,
      <<"5", "5", "0", "0", "0">>,
      <<"a", "c", "t", "i", "v", "e">>,
      <<"0", "1", "/", "1", "5", "/", "2", "0", "2", "4">>) >>

\* characters of the free-form texts
TextChars == {"1", ".", "-", " ", "a"}

RECURSIVE TextsUpTo(_)
\* every text of at most n characters over TextChars
TextsUpTo(n) == IF n = 0 THEN {<<>>}
                ELSE LET shorter == TextsUpTo(n - 1)
                     IN shorter \cup {Append(t, c) : t \in shorter, c \in TextChars}

\* raw texts of a field in the shapes its normalizer distinguishes
FieldTexts(f) ==
  {
    <<"[", "U", "N", "K", "N", "O", "W", "N", "]">>,
    <<"n", "a", "n">>,
    <<"N", "o", "n", "e">>,
    <<"N", "a", "N">> } \cup
  (CASE f = "phone" -> {
    <<"5", "5", "5", "1", "2", "3", "4", "5", "6", "7">>,
    <<"(", "5", "5", "5", ")", " ", "2", "3", "4", "-", "5", "6", "7", "8">>,
    <<"1", "5", "5", "5", "1", "2", "3", "4", "5", "6", "7">>,
    <<"2", "5", "5", "5", "1", "2", "3", "4", "5", "6", "7">>,
    <<"5", "5", "5", "1", "2", "3", "4", "5", "6", "7", "8", "9">>,
    <<"5", "5", "5", "-", "1", "2", "3", "4">> }
     [] f \in {"date_of_birth", "created_date"} -> {
    <<"1", "9", "8", "5", "-", "0", "3", "-", "1", "5">>,
    <<"0", "5", "/", "1", "0", "/", "1", "9", "7", "5">>,
    <<"1", "5", "/", "0", "1", "/", "2", "0", "2", "4">>,
    <<"2", "0", "2", "4", "/", "0", "1", "/", "1", "5">>,
    <<"0", "1", "-", "1", "5", "-", "2", "0", "2", "4">>,
    <<"i", "n", "v", "a", "l", "i", "d", "_", "d", "a", "t", "e">>,
    <<"I", "N", "V", "A", "L", "I", "D", "_", "D", "A", "T", "E">>,
    <<"2", "0", "2", "3", "-", "0", "2", "-", "2", "9">>,
    <<"0", "0", "0", "0", "-", "0", "1", "-", "0", "1">>,
    <<" ", "2", "0", "2", "4", "-", "1", "-", "5", " ">>,
    <<"1", "3", "/", "1", "3", "/", "2", "0", "2", "4">>,
    <<"0", "3", "/", "0", "4", "/", "2", "0", "2", "4">>,
    <<"0", "9", "8", "5", "-", "0", "3", "-", "1", "5">> }
     [] f \in {"first_name", "last_name"} -> {
    <<"j", "o", "h", "n", " ", "d", "o", "e">>,
    <<"P", "A", "T", "R", "I", "C", "I", "A">>,
    <<"o", "'", "n", "e", "i", "l">>,
    <<" ", "m", "a", "r", "y", " ">> }
     [] f = "email" -> {
    <<"P", "A", "T", "R", "I", "C", "I", "A", ".", "D", "A", "V", "I", "S", "@", "G", "M", "A", "I", "L", ".", "C", "O", "M">>,
    <<"b", "a", "d">>,
    <<" ", "a", "@", "b", ".", "c", "o", " ">>,
    <<"@", "b", ".", "c", "o">>,
    <<"a", "b", "@", "c", "@", "d">>,
    <<"a", "x", "y", "@", "c", "@", "d">>,
    <<"[", "u", "n", "k", "n", "o", "w", "n", "]">> }
     [] f = "income" -> {
    <<"7", "5", "0", "0", "0">>,
    <<"9", "5", "0", "0", "0", ".", "5", "0">>,
    <<"$", "1", ",", "2", "0", "0">>,
    <<"-", "5", "0", "0">>,
    <<"1", ".", "2", ".", "3">>,
    <<"1", "e", "3">> }
     [] OTHER -> {
    <<"A", "C", "T", "I", "V", "E">>,
    <<"u", "n", "k", "n", "o", "w", "n", "_", "s", "t", "a", "t", "u", "s">>,
    <<" ", "I", "n", "a", "c", "t", "i", "v", "e", " ">>,
    <<"u", "n", "k", "n", "o", "w", "n">> })

\* the cells a raw field is drawn from: free-form and chosen texts, and the
\* missing marker read_csv gives an empty field
RawCells(f) == {Str(t) : t \in TextsUpTo(MaxLen) \cup FieldTexts(f)} \cup {NaN}

\* a well-formed record, and the records that differ from it in one field
BaseRow == sample_raw_data[1]

OneFieldRows ==
  UNION {{[BaseRow EXCEPT ![f] = v] : v \in RawCells(f)} : f \in clean_loop_cols}

\* a record as read_csv gives it when every optional field is empty
BlankRow == [BaseRow EXCEPT !.first_name = NaN, !.last_name = NaN, !.email = NaN,
                            !.phone = NaN, !.date_of_birth = NaN, !.address = NaN,
                            !.income = NaN, !.account_status = NaN, !.created_date = NaN]

\* a record with a short phone, no customer id and an unknown status
ShortPhoneRow == [sample_raw_data[2] EXCEPT !.customer_id = Str(<<"x">>),
                    !.phone = Str(<<"5", "5", "5", "-", "1", "2", "3", "4">>),
                    !.email = Str(<<"b", "a", "d">>),
                    !.account_status = Str(<<"c", "l", "o", "s", "e", "d">>)]

\* records that datasets of several rows are built from
CoreRows == {sample_raw_data[1], sample_raw_data[2], sample_raw_data[3],
             sample_raw_data[5], BlankRow, ShortPhoneRow}

RECURSIVE SeqsUpTo(_, _)
\* every sequence of at most n elements of S
SeqsUpTo(S, n) == IF n = 0 THEN {<<>>}
                  ELSE LET shorter == SeqsUpTo(S, n - 1)
                       IN shorter \cup {Append(q, x) : q \in shorter, x \in S}

\* the raw datasets clean_data is applied to
RawDatasets == SeqsUpTo(CoreRows, MaxRows) \cup {<<r>> : r \in OneFieldRows}
               \cup {sample_raw_data}

\* ------------------------------------------- validators.py: DataValidator
\* validate_raw: passes exactly when the column list is the schema, in order
validate_raw(cols, rows) ==
  IF cols # expected_cols
  THEN [passed |-> FALSE, row_count |-> Len(rows), error |-> TRUE]
  ELSE [passed |-> TRUE, row_count |-> 0, error |-> FALSE]

validate_cleaned(cols, rows) == validate_raw(cols, rows)

\* int(v): [ok |-> FALSE] when it raises, else the integer
PyInt(v) ==
  IF v.k = "int" THEN [ok |-> TRUE, n |-> v.n]
  ELSE IF v.k # "str" THEN [ok |-> FALSE, n |-> 0]
  ELSE LET t == Strip(v.s)
           signed == t # <<>> /\ t[1] \in {"-", "+"}
           body == IF signed THEN Tail(t) ELSE t
       IN IF body = <<>> \/ \E i \in 1..Len(body) : ~IsDigit(body[i])
          THEN [ok |-> FALSE, n |-> 0]
          ELSE [ok |-> TRUE,
                n |-> IF signed /\ t[1] = "-" THEN 0 - DigitsToNat(body) ELSE DigitsToNat(body)]

IsAlnum(c) == IsCased(c) \/ IsDigit(c)

\* ^[a-zA-Z0-9._%+-]+@[a-zA-Z0-9.-]+\.[a-zA-Z]{2,}$
EmailMatches(s) ==
  \E a \in 2..Len(s) :
    /\ s[a] = "@"
    /\ \A i \in 1..(a - 1) : IsAlnum(s[i]) \/ s[i] \in {".", "_", "%", "+", "-"}
    /\ \E d \in (a + 2)..(Len(s) - 2) :
         /\ s[d] = "."
         /\ \A i \in (a + 1)..(d - 1) : IsAlnum(s[i]) \/ s[i] \in {".", "-"}
         /\ \A i \in (d + 1)..Len(s) : IsCased(s[i])

\* ^\d{3}-\d{3}-\d{4}$
PhoneMatches(s) ==
  /\ Len(s) = 12
  /\ \A i \in 1..12 : IF i \in {4, 8} THEN s[i] = "-" ELSE IsDigit(s[i])

\* "present": pd.notna(x) and str(x).strip()
Present(v) == ~isna(v) /\ Strip(PyStr(v)) # <<>>

\* the checks of one record made with the account_status check first
RowIssues_status_first(cols, r, is_cleaned) ==
  (IF Present(r.account_status)
         /\ Lower(Strip(PyStr(r.account_status))) \notin valid_statuses
        THEN <<"Invalid account_status">> ELSE <<>>)
  \o (IF ~HasCol(cols, "customer_id") \/ ~PyInt(r.customer_id).ok
     THEN <<"customer_id must be integer">>
     ELSE IF PyInt(r.customer_id).n <= 0 THEN <<"customer_id must be positive">> ELSE <<>>)
  \o (IF Present(r.email) /\ ~EmailMatches(PyStr(r.email))
        THEN <<"Invalid email format">> ELSE <<>>)
  \o (IF Present(r.phone)
        THEN (IF is_cleaned
                THEN (IF ~PhoneMatches(PyStr(r.phone))
                        THEN <<"Phone must be XXX-XXX-XXXX format">> ELSE <<>>)
                ELSE (IF Len(OnlyDigits(PyStr(r.phone))) < 10
                        THEN <<"Phone number too short">> ELSE <<>>))
        ELSE <<>>)

\* the issues of one record, in the order the checks are made
RowIssues(cols, r, is_cleaned) ==
  (IF ~HasCol(cols, "customer_id") \/ ~PyInt(r.customer_id).ok
     THEN <<"customer_id must be integer">>
     ELSE IF PyInt(r.customer_id).n <= 0 THEN <<"customer_id must be positive">> ELSE <<>>)
  \o (IF Present(r.email) /\ ~EmailMatches(PyStr(r.email))
        THEN <<"Invalid email format">> ELSE <<>>)
  \o (IF Present(r.phone)
        THEN (IF is_cleaned
                THEN (IF ~PhoneMatches(PyStr(r.phone))
                        THEN <<"Phone must be XXX-XXX-XXXX format">> ELSE <<>>)
                ELSE (IF Len(OnlyDigits(PyStr(r.phone))) < 10
                        THEN <<"Phone number too short">> ELSE <<>>))
        ELSE <<>>)
  \o (IF Present(r.account_status)
         /\ Lower(Strip(PyStr(r.account_status))) \notin valid_statuses
        THEN <<"Invalid account_status">> ELSE <<>>)

\* KeyError out of the row loop of validate_with_details
validate_raises(cols, rows) ==
  rows # <<>> /\ ~HasCols(cols, {"email", "phone", "account_status"})

\* a failed_rows entry numbered without the header row's offset
entry_without_header(cols, rows, i, is_cleaned) ==
  [row_number |-> (i - 1) + 1,
   issues |-> RowIssues(cols, rows[i], is_cleaned),
   data |-> rows[i]]

\* the failed_rows entry of the record at index i (row_number is idx + 2)
entry(cols, rows, i, is_cleaned) ==
  [row_number |-> (i - 1) + 2,
   issues |-> RowIssues(cols, rows[i], is_cleaned),
   data |-> rows[i]]

\* `if issues:`
HasIssues(e) == e.issues # <<>>

\* the dictionary validate_with_details returns
details(rows, failed_rows) ==
  [raised |-> FALSE,
   total_rows |-> Len(rows),
   passed_rows |-> Len(rows) - Len(failed_rows),
   failed_rows |-> failed_rows,
   failure_count |-> Len(failed_rows),
   pass_rate |-> IF Len(rows) > 0
                   THEN <<(Len(rows) - Len(failed_rows)) * 100, Len(rows)>>
                   ELSE <<0, 1>>]

validate_with_details(cols, rows, is_cleaned) ==
  IF validate_raises(cols, rows)
  THEN [raised |-> TRUE, total_rows |-> 0, passed_rows |-> 0, failed_rows |-> <<>>,
        failure_count |-> 0, pass_rate |-> <<0, 1>>]
  ELSE details(rows, SelectSeq([i \in 1..Len(rows) |-> entry(cols, rows, i, is_cleaned)],
                                HasIssues))

\* --------------------------------------------- validators.py: PIIDetector
\* re.search(r'\d{3}', s)
HasThreeDigits(s) == \E i \in 1..(Len(s) - 2) : \A j \in i..(i + 2) : IsDigit(s[j])

\* does s, from position i, have the shape sh ("d" a digit, else the literal)
ShapeAt(s, i, sh) ==
  /\ i + Len(sh) - 1 <= Len(s)
  /\ \A j \in 1..Len(sh) :
       IF sh[j] = "d" THEN IsDigit(s[i + j - 1]) ELSE s[i + j - 1] = sh[j]

\* re.search(r'\d{4}-\d{2}-\d{2}|\d{2}/\d{2}/\d{4}', s)
LooksLikeDate(s) ==
  \E i \in 1..Len(s) :
    \/ ShapeAt(s, i, <<"d", "d", "d", "d", "-", "d", "d", "-", "d", "d">>)
    \/ ShapeAt(s, i, <<"d", "d", "/", "d", "d", "/", "d", "d", "d", "d">>)

\* pd.notna(x) and x
Truthy(v) == ~isna(v) /\ ~Falsy(v)

\* the PII tags of one record, in detection order
RowPII(r) ==
  (IF Truthy(r.email) THEN <<"email">> ELSE <<>>)
  \o (IF Truthy(r.phone) /\ HasThreeDigits(PyStr(r.phone)) THEN <<"phone">> ELSE <<>>)
  \o (IF Truthy(r.address) /\ Strip(PyStr(r.address)) # <<>> THEN <<"address">> ELSE <<>>)
  \o (IF Truthy(r.date_of_birth) /\ LooksLikeDate(PyStr(r.date_of_birth))
        THEN <<"dob">> ELSE <<>>)
  \o (IF \/ Truthy(r.first_name) /\ Strip(PyStr(r.first_name)) # <<>>
         \/ Truthy(r.last_name) /\ Strip(PyStr(r.last_name)) # <<>>
        THEN <<"name">> ELSE <<>>)

HasTag(tags, t) == \E j \in 1..Len(tags) : tags[j] = t

\* KeyError out of the row loop of detect_pii
detect_raises(cols, rows) ==
  rows # <<>> /\ ~HasCols(cols, {"email", "phone", "address", "date_of_birth",
                                 "first_name", "last_name"})

\* the (row_number, value) list of one PII type
Found(rows, t, f) ==
  LET value(r) == IF t = "name"
                    THEN Str(PyStr(r.first_name) \o <<" ">> \o PyStr(r.last_name))
                    ELSE r[f]
      all == [i \in 1..Len(rows) |-> [row |-> i + 1, value |-> value(rows[i]), tags |-> RowPII(rows[i])]]
      tagged(e) == HasTag(e.tags, t)
      hits == SelectSeq(all, tagged)
  IN [i \in 1..Len(hits) |-> <<hits[i].row, hits[i].value>>]

\* detect_pii that calls a record high-risk only above three PII types
detect_pii_above_three(rows) ==
  LET all == [i \in 1..Len(rows) |->
                [row |-> i + 1, pii_types |-> RowPII(rows[i]), pii_count |-> Len(RowPII(rows[i]))]]
      risky(e) == e.pii_count > 3
  IN [emails |-> Found(rows, "email", "email"),
      phones |-> Found(rows, "phone", "phone"),
      addresses |-> Found(rows, "address", "address"),
      dobs |-> Found(rows, "dob", "date_of_birth"),
      names |-> Found(rows, "name", "first_name"),
      high_risk_rows |-> SelectSeq(all, risky)]

detect_pii(rows) ==
  LET all == [i \in 1..Len(rows) |->
                [row |-> i + 1, pii_types |-> RowPII(rows[i]), pii_count |-> Len(RowPII(rows[i]))]]
      risky(e) == e.pii_count >= 3
  IN [emails |-> Found(rows, "email", "email"),
      phones |-> Found(rows, "phone", "phone"),
      addresses |-> Found(rows, "address", "address"),
      dobs |-> Found(rows, "dob", "date_of_birth"),
      names |-> Found(rows, "name", "first_name"),
      high_risk_rows |-> SelectSeq(all, risky)]

\* calculate_exposure_risk: every coverage divides by total_rows
risk_raises(rows) == Len(rows) = 0

\* calculate_exposure_risk that calls exactly half of the rows CRITICAL
calculate_exposure_risk_at_half(rows, pii_data) ==
  [total_rows |-> Len(rows),
   email_coverage |-> <<Len(pii_data.emails) * 100, Len(rows)>>,
   phone_coverage |-> <<Len(pii_data.phones) * 100, Len(rows)>>,
   address_coverage |-> <<Len(pii_data.addresses) * 100, Len(rows)>>,
   dob_coverage |-> <<Len(pii_data.dobs) * 100, Len(rows)>>,
   name_coverage |-> <<Len(pii_data.names) * 100, Len(rows)>>,
   risk_level |-> IF 2 * Len(pii_data.high_risk_rows) >= Len(rows) THEN "CRITICAL" ELSE "HIGH",
   high_risk_count |-> Len(pii_data.high_risk_rows)]

calculate_exposure_risk(rows, pii_data) ==
  [total_rows |-> Len(rows),
   email_coverage |-> <<Len(pii_data.emails) * 100, Len(rows)>>,
   phone_coverage |-> <<Len(pii_data.phones) * 100, Len(rows)>>,
   address_coverage |-> <<Len(pii_data.addresses) * 100, Len(rows)>>,
   dob_coverage |-> <<Len(pii_data.dobs) * 100, Len(rows)>>,
   name_coverage |-> <<Len(pii_data.names) * 100, Len(rows)>>,
   risk_level |-> IF 2 * Len(pii_data.high_risk_rows) > Len(rows) THEN "CRITICAL" ELSE "HIGH",
   high_risk_count |-> Len(pii_data.high_risk_rows)]

\* ---------------------------------------------------- masker.py: PIIMasker
S_unknown_tag == <<"[", "u", "n", "k", "n", "o", "w", "n", "]">>

MASKED_ADDRESS == <<"[", "M", "A", "S", "K", "E", "D", " ", "A", "D", "D", "R", "E", "S", "S", "]">>

\* the guard shared by the mask functions
IsMaskMissing(v) == IsMissing(v) \/ Lower(PyStr(v)) = S_unknown_tag

RECURSIVE SplitWords(_)
\* str.split(): the maximal runs of non-whitespace characters
SplitWords(s) ==
  LET t == LStrip(s)
  IN IF t = <<>> THEN <<>>
     ELSE LET n == IF \E i \in 1..Len(t) : IsSpace(t[i])
                     THEN (CHOOSE i \in 1..Len(t) :
                             IsSpace(t[i]) /\ \A j \in 1..(i - 1) : ~IsSpace(t[j])) - 1
                     ELSE Len(t)
          IN <<SubSeq(t, 1, n)>> \o SplitWords(SubSeq(t, n + 1, Len(t)))

RECURSIVE JoinWords(_)
\* ' '.join(parts)
JoinWords(parts) ==
  IF parts = <<>> THEN <<>>
  ELSE IF Len(parts) = 1 THEN parts[1]
  ELSE parts[1] \o <<" ">> \o JoinWords(Tail(parts))

Stars3 == <<"*", "*", "*">>

MaskPart(part) == IF Len(part) > 1 THEN <<part[1]>> \o Stars3 ELSE <<"*">>

mask_name(name) ==
  IF IsMaskMissing(name) THEN Str(UNKNOWN)
  ELSE LET parts == SplitWords(Strip(PyStr(name)))
       IN Str(JoinWords([i \in 1..Len(parts) |-> MaskPart(parts[i])]))

\* mask_email that keeps the letter case of the value
mask_email_cased(email) ==
  IF IsMaskMissing(email) THEN Str(UNKNOWN)
  ELSE LET e == Strip(PyStr(email))
       IN IF \E i \in 1..Len(e) : e[i] = "@"
          THEN LET a == CHOOSE i \in 1..Len(e) : e[i] = "@" /\ \A j \in 1..(i - 1) : e[j] # "@"
               IN Str(MaskPart(SubSeq(e, 1, a - 1)) \o <<"@">> \o SubSeq(e, a + 1, Len(e)))
          ELSE Str(e)

mask_email(email) ==
  IF IsMaskMissing(email) THEN Str(UNKNOWN)
  ELSE LET e == Lower(Strip(PyStr(email)))
       IN IF \E i \in 1..Len(e) : e[i] = "@"
          THEN LET a == CHOOSE i \in 1..Len(e) : e[i] = "@" /\ \A j \in 1..(i - 1) : e[j] # "@"
                   local == SubSeq(e, 1, a - 1)
                   domain == SubSeq(e, a + 1, Len(e))
               IN Str(MaskPart(local) \o <<"@">> \o domain)
          ELSE Str(e)

\* mask_phone that shows the first four digits
mask_phone_leading(phone) ==
  IF IsMaskMissing(phone) THEN Str(UNKNOWN)
  ELSE LET digits == OnlyDigits(Strip(PyStr(phone)))
       IN IF Len(digits) >= 4
          THEN Str(Stars3 \o <<"-">> \o Stars3 \o <<"-">> \o SubSeq(digits, 1, 4))
          ELSE Str(Stars3 \o <<"-">> \o Stars3 \o <<"-", "*", "*", "*", "*">>)

mask_phone(phone) ==
  IF IsMaskMissing(phone) THEN Str(UNKNOWN)
  ELSE LET digits == OnlyDigits(Strip(PyStr(phone)))
           n == Len(digits)
       IN IF n >= 4
          THEN Str(Stars3 \o <<"-">> \o Stars3 \o <<"-">> \o SubSeq(digits, n - 3, n))
          ELSE Str(Stars3 \o <<"-">> \o Stars3 \o <<"-", "*", "*", "*", "*">>)

\* mask_address that answers [UNKNOWN] for a missing address, as the other
\* mask functions do
mask_address_or_unknown(address) ==
  IF IsMaskMissing(address) THEN Str(UNKNOWN) ELSE Str(MASKED_ADDRESS)

mask_address(address) == Str(MASKED_ADDRESS)

mask_dob(dob) ==
  IF IsMaskMissing(dob) THEN Str(UNKNOWN)
  ELSE LET d == Strip(PyStr(dob))
       IN IF ShapeAt(d, 1, <<"d", "d", "d", "d", "-">>)
          THEN Str(SubSeq(d, 1, 4) \o <<"-", "*", "*", "-", "*", "*">>)
          ELSE Str(<<"*", "*", "*", "*", "-", "*", "*", "-", "*", "*">>)

\* the columns mask_dataframe reads and replaces
mask_cols == {"first_name", "last_name", "email", "phone", "address", "date_of_birth"}

mask_raises(cols) == ~HasCols(cols, mask_cols)

\* mask_dataframe that also replaces account_status
mask_dataframe_with_status(rows) ==
  [i \in 1..Len(rows) |->
     [rows[i] EXCEPT !.first_name = mask_name(@),
                     !.last_name = mask_name(@),
                     !.email = mask_email(@),
                     !.phone = mask_phone(@),
                     !.address = mask_address(@),
                     !.date_of_birth = mask_dob(@),
                     !.account_status = Str(UNKNOWN)]]

mask_dataframe(rows) ==
  [i \in 1..Len(rows) |->
     [rows[i] EXCEPT !.first_name = mask_name(@),
                     !.last_name = mask_name(@),
                     !.email = mask_email(@),
                     !.phone = mask_phone(@),
                     !.address = mask_address(@),
                     !.date_of_birth = mask_dob(@)]]

\* --------------------------------------------- profiler.py: DataProfiler
\* KeyError out of generate_report: the row loops read five columns, and
\* check_categorical_validity reads account_status even without rows
\* (customer_id and income are read inside try/except)
profile_raises(cols, rows) ==
  \/ ~HasCol(cols, "account_status")
  \/ rows # <<>> /\ ~HasCols(cols, {"phone", "date_of_birth", "created_date",
                                    "first_name", "last_name"})

\* ------------------------------------------- pipeline.py: the eight stages
\* a DataFrame: its column list and its records; NoFrame stands for None
Frame(cols, rows) == [cols |-> cols, rows |-> rows]

NoFrame == Frame(<<>>, <<>>)

\* the {} a validation stage returns on failure
NoDetails == [raised |-> TRUE, total_rows |-> 0, passed_rows |-> 0, failed_rows |-> <<>>,
              failure_count |-> 0, pass_rate |-> <<0, 1>>]

NoStats == [rows_processed |-> 0, rows_dropped |-> 0, normalization_actions |-> <<>>,
            missing_value_actions |-> <<>>, rows_remaining |-> 0]

NoPII == [emails |-> <<>>, phones |-> <<>>, addresses |-> <<>>, dobs |-> <<>>,
          names |-> <<>>, high_risk_rows |-> <<>>]

NoRisk == [total_rows |-> 0, email_coverage |-> <<0, 1>>, phone_coverage |-> <<0, 1>>,
           address_coverage |-> <<0, 1>>, dob_coverage |-> <<0, 1>>,
           name_coverage |-> <<0, 1>>, risk_level |-> "none", high_risk_count |-> 0]

\* read_ok: whether pd.read_csv succeeds on the input file
stage_1_load(file, read_ok) ==
  IF read_ok
  THEN [df |-> Frame(file.cols, file.rows), success |-> TRUE, status |-> "[OK] SUCCESS"]
  ELSE [df |-> NoFrame, success |-> FALSE, status |-> "FAILED"]

\* write_ok: whether data_quality_report.txt can be written
stage_2_profile(df, write_ok) ==
  IF ~profile_raises(df.cols, df.rows) /\ write_ok
  THEN [success |-> TRUE, status |-> "OK"]
  ELSE [success |-> FALSE, status |-> "FAILED"]

\* what a validation stage returns: the details and True, whatever the
\* details say, and ({}, False) only from its except branch
validation_outcome(d) ==
  IF d.raised
  THEN [details |-> NoDetails, success |-> FALSE, status |-> "FAILED"]
  ELSE [details |-> d, success |-> TRUE,
        status |-> IF Len(d.failed_rows) = 0 THEN "OK" ELSE "ISSUES"]

\* a validation stage that fails when rows have issues
stage_3_validate_raw_gated(df) ==
  IF validation_outcome(validate_with_details(df.cols, df.rows, FALSE)).status = "OK"
  THEN validation_outcome(validate_with_details(df.cols, df.rows, FALSE))
  ELSE [details |-> NoDetails, success |-> FALSE, status |-> "FAILED"]

stage_3_validate_raw(df) ==
  validation_outcome(validate_with_details(df.cols, df.rows, FALSE))

\* what the CLEAN stage returns: (cleaned_df, stats, True), and
\* (None, {}, False) from its except branch
clean_outcome(c) ==
  IF c.raised
  THEN [cleaned_df |-> NoFrame, stats |-> NoStats, success |-> FALSE, status |-> "FAILED"]
  ELSE [cleaned_df |-> Frame(c.cols, c.df), stats |-> c.stats, success |-> TRUE,
        status |-> "OK"]

stage_4_clean(df) == clean_outcome(clean_data(df.cols, df.rows))

stage_5_validate_clean(df) ==
  validation_outcome(validate_with_details(df.cols, df.rows, TRUE))

\* the DETECT_PII stage's return value on success
pii_outcome(rows, pii_data) ==
  [pii_data |-> pii_data, risk |-> calculate_exposure_risk(rows, pii_data),
   success |-> TRUE, status |-> "OK"]

stage_6_detect_pii(df) ==
  IF detect_raises(df.cols, df.rows) \/ risk_raises(df.rows)
  THEN [pii_data |-> NoPII, risk |-> NoRisk, success |-> FALSE, status |-> "FAILED"]
  ELSE pii_outcome(df.rows, detect_pii(df.rows))

stage_7_mask(cleaned_df) ==
  IF mask_raises(cleaned_df.cols)
  THEN [masked_df |-> NoFrame, success |-> FALSE, status |-> "FAILED"]
  ELSE [masked_df |-> Frame(cleaned_df.cols, mask_dataframe(cleaned_df.rows)),
        success |-> TRUE, status |-> "OK"]

\* write_ok: whether the six output files can be written
stage_8_save_outputs(write_ok) ==
  IF write_ok THEN [success |-> TRUE, status |-> "OK"]
  ELSE [success |-> FALSE, status |-> "FAILED"]

\* the stages in the order execute calls them
StageOrder == <<"LOAD", "PROFILE", "VALIDATE_RAW", "CLEAN", "VALIDATE_CLEAN",
                "DETECT_PII", "MASK", "SAVE">>

StageIndex(stage) == CHOOSE i \in 1..Len(StageOrder) : StageOrder[i] = stage

\* execute after a stage that keeps going whatever the stage returned
after_stage_unchecked(stage, success) ==
  IF StageIndex(stage) < Len(StageOrder) THEN StageOrder[StageIndex(stage) + 1]
  ELSE "REPORT"

\* execute after a stage: `if not success: return False`, else the next
\* stage, and after SAVE the execution report
after_stage(stage, success) ==
  IF ~success THEN "returned"
  ELSE IF StageIndex(stage) < Len(StageOrder) THEN StageOrder[StageIndex(stage) + 1]
  ELSE "REPORT"

\* ------------------------------------------------------------ the state
VARIABLES
  pc,               \* where the process is: main, a stage of execute, the end
  input_file,       \* the input CSV: whether it exists, its columns and records
  config,           \* what config/config.yaml holds
  execution_log,    \* DataPipeline.execution_log: one entry per stage run
  df,               \* the loaded DataFrame
  cleaned_df,       \* the Cleaner's output
  masked_df,        \* the Masker's output
  reports,          \* validation_raw, cleaning_stats, validation_clean, pii_data, pii_risk
  ret,              \* what execute returned: none, True, False, raised
  main_ret,         \* what main returned: none, True, False, raised
  exit_code,        \* the process exit status, -1 while running
  cd_pc,            \* clean_data harness: idle, raw, cleaned, recleaned
  cd_raw,           \* the dataset clean_data is applied to
  cd_first,         \* stage_4_clean of cd_raw
  cd_second,        \* stage_4_clean of the dataset cd_first returned
  fn_pc,            \* component harness: idle, cell, dataset, then the call made
  fn_arg,           \* the cell or the dataset a component is called on
  fn_out,           \* what the call returned
  fn_again          \* what a second, equal call returned

vars == <<pc, input_file, config, execution_log, df, cleaned_df, masked_df, reports,
          ret, main_ret, exit_code, cd_pc, cd_raw, cd_first, cd_second,
          fn_pc, fn_arg, fn_out, fn_again>>

pipeline_vars == <<pc, input_file, config, execution_log, df, cleaned_df, masked_df,
                   reports, ret, main_ret, exit_code>>

harness_vars == <<cd_pc, cd_raw, cd_first, cd_second>>

fn_vars == <<fn_pc, fn_arg, fn_out, fn_again>>

\* a record of which read_csv finds only the id, the birth date and the address
AnonymousRow == [BlankRow EXCEPT !.date_of_birth = BaseRow.date_of_birth,
                                 !.address = BaseRow.address]

\* ------------------------------------------------------- the input files
\* the records the pipeline's input files are built from
PipelineRows == {sample_raw_data[1], sample_raw_data[5], BlankRow, ShortPhoneRow,
                 AnonymousRow}

Without(cols, c) == SelectSeq(cols, LAMBDA x : x # c)

\* the schema, and column lists that differ from it: two columns swapped,
\* a column added, a column renamed, a column missing
ColumnLists == {expected_cols,
                [expected_cols EXCEPT ![2] = "last_name", ![3] = "first_name"],
                Append(expected_cols, "notes"),
                [expected_cols EXCEPT ![5] = "telephone"],
                Without(expected_cols, "address"),
                Without(expected_cols, "email"),
                Without(expected_cols, "customer_id")}

InputFiles ==
  {[exists |-> TRUE, cols |-> c, rows |-> r] :
     c \in ColumnLists, r \in SeqsUpTo(PipelineRows, MaxRows)}
  \cup {[exists |-> TRUE, cols |-> expected_cols, rows |-> sample_raw_data]}
  \cup {[exists |-> FALSE, cols |-> <<>>, rows |-> <<>>]}

\* config/config.yaml: unreadable or absent (load_config gives {}), empty
\* (yaml gives None), a mapping without paths, a mapping with paths
Configs == {"unreadable", "empty", "no_paths", "paths"}

NoReports == [validation_raw |-> NoDetails, cleaning_stats |-> NoStats,
              validation_clean |-> NoDetails, pii_data |-> NoPII, pii_risk |-> NoRisk]

NoClean == [cleaned_df |-> NoFrame, stats |-> NoStats, success |-> FALSE, status |-> "none"]

HarnessIdle == cd_pc = "idle" /\ cd_raw = <<>> /\ cd_first = NoClean /\ cd_second = NoClean

FnIdle == fn_pc = "idle" /\ fn_arg = <<>> /\ fn_out = <<>> /\ fn_again = <<>>

PipelineIdle ==
  /\ pc = "idle" /\ input_file = [exists |-> FALSE, cols |-> <<>>, rows |-> <<>>]
  /\ config = "unreadable" /\ execution_log = <<>>
  /\ df = NoFrame /\ cleaned_df = NoFrame /\ masked_df = NoFrame /\ reports = NoReports
  /\ ret = "none" /\ main_ret = "none" /\ exit_code = -1

\* the process at the start of main
Init ==
  /\ pc = "main"
  /\ input_file \in InputFiles
  /\ config \in Configs
  /\ execution_log = <<>>
  /\ df = NoFrame /\ cleaned_df = NoFrame /\ masked_df = NoFrame /\ reports = NoReports
  /\ ret = "none" /\ main_ret = "none" /\ exit_code = -1
  /\ HarnessIdle
  /\ FnIdle

\* ------------------------------------------------------- main.py: main
\* config.get('paths', {}) raises AttributeError when yaml gave None
config_get_raises(cfg) == cfg = "empty"

\* main, from setup_logging to the pipeline's construction.
\* log_ok: logs/ can be created; mkdir_ok: the output directory can be created
MainStart ==
  /\ pc = "main"
  /\ \E log_ok \in BOOLEAN, mkdir_ok \in BOOLEAN :
       IF ~log_ok \/ config_get_raises(config)
       THEN main_ret' = "raised" /\ pc' = "main_done"
       ELSE IF ~input_file.exists
       THEN main_ret' = "False" /\ pc' = "main_done"
       ELSE IF ~mkdir_ok
       THEN main_ret' = "raised" /\ pc' = "main_done"
       ELSE main_ret' = main_ret /\ pc' = "LOAD"
  /\ UNCHANGED <<input_file, config, execution_log, df, cleaned_df, masked_df, reports,
                 ret, exit_code>>
  /\ UNCHANGED <<harness_vars, fn_vars>>

\* log_stage, and execute's check of the stage's success flag
Advance(stage, r) ==
  /\ execution_log' = Append(execution_log, [stage |-> stage, status |-> r.status])
  /\ pc' = after_stage(stage, r.success)
  /\ ret' = IF pc' = "returned" THEN "False" ELSE ret

\* df, success = self.stage_1_load()
Loaded(r) == df' = r.df /\ Advance("LOAD", r)

Stage1 ==
  /\ pc = "LOAD"
  /\ \E read_ok \in BOOLEAN : Loaded(stage_1_load(input_file, read_ok))
  /\ UNCHANGED <<input_file, config, cleaned_df, masked_df, reports, main_ret, exit_code>>
  /\ UNCHANGED <<harness_vars, fn_vars>>

Stage2 ==
  /\ pc = "PROFILE"
  /\ \E write_ok \in BOOLEAN : Advance("PROFILE", stage_2_profile(df, write_ok))
  /\ UNCHANGED <<input_file, config, df, cleaned_df, masked_df, reports, main_ret, exit_code>>
  /\ UNCHANGED <<harness_vars, fn_vars>>

\* validation_raw, success = self.stage_3_validate_raw(df)
ValidatedRaw(r) ==
  /\ reports' = [reports EXCEPT !.validation_raw = r.details]
  /\ Advance("VALIDATE_RAW", r)

Stage3 ==
  /\ pc = "VALIDATE_RAW"
  /\ ValidatedRaw(stage_3_validate_raw(df))
  /\ UNCHANGED <<input_file, config, df, cleaned_df, masked_df, main_ret, exit_code>>
  /\ UNCHANGED <<harness_vars, fn_vars>>

\* cleaned_df, cleaning_stats, success = self.stage_4_clean(df)
Cleaned(r) ==
  /\ cleaned_df' = r.cleaned_df
  /\ reports' = [reports EXCEPT !.cleaning_stats = r.stats]
  /\ Advance("CLEAN", r)

Stage4 ==
  /\ pc = "CLEAN"
  /\ Cleaned(stage_4_clean(df))
  /\ UNCHANGED <<input_file, config, df, masked_df, main_ret, exit_code>>
  /\ UNCHANGED <<harness_vars, fn_vars>>

\* validation_clean, success = self.stage_5_validate_clean(cleaned_df)
ValidatedClean(r) ==
  /\ reports' = [reports EXCEPT !.validation_clean = r.details]
  /\ Advance("VALIDATE_CLEAN", r)

Stage5 ==
  /\ pc = "VALIDATE_CLEAN"
  /\ ValidatedClean(stage_5_validate_clean(cleaned_df))
  /\ UNCHANGED <<input_file, config, df, cleaned_df, masked_df, main_ret, exit_code>>
  /\ UNCHANGED <<harness_vars, fn_vars>>

\* pii_data, pii_risk, success = self.stage_6_detect_pii(cleaned_df)
Detected(r) ==
  /\ reports' = [reports EXCEPT !.pii_data = r.pii_data, !.pii_risk = r.risk]
  /\ Advance("DETECT_PII", r)

Stage6 ==
  /\ pc = "DETECT_PII"
  /\ Detected(stage_6_detect_pii(cleaned_df))
  /\ UNCHANGED <<input_file, config, df, cleaned_df, masked_df, main_ret, exit_code>>
  /\ UNCHANGED <<harness_vars, fn_vars>>

\* masked_df, masked_sample, success = self.stage_7_mask(cleaned_df)
Masked(r) == masked_df' = r.masked_df /\ Advance("MASK", r)

Stage7 ==
  /\ pc = "MASK"
  /\ Masked(stage_7_mask(cleaned_df))
  /\ UNCHANGED <<input_file, config, df, cleaned_df, reports, main_ret, exit_code>>
  /\ UNCHANGED <<harness_vars, fn_vars>>

Stage8 ==
  /\ pc = "SAVE"
  /\ \E write_ok \in BOOLEAN : Advance("SAVE", stage_8_save_outputs(write_ok))
  /\ UNCHANGED <<input_file, config, df, cleaned_df, masked_df, reports, main_ret, exit_code>>
  /\ UNCHANGED <<harness_vars, fn_vars>>

\* the end of execute: pipeline_execution_report.txt is written outside any
\* try/except, then execute returns True
WriteExecutionReport ==
  /\ pc = "REPORT"
  /\ \E write_ok \in BOOLEAN : ret' = IF write_ok THEN "True" ELSE "raised"
  /\ pc' = "returned"
  /\ UNCHANGED <<input_file, config, execution_log, df, cleaned_df, masked_df, reports,
                 main_ret, exit_code>>
  /\ UNCHANGED <<harness_vars, fn_vars>>

\* main after pipeline.execute(): True or False as execute returned, and an
\* exception out of execute goes on out of main
MainReturn ==
  /\ pc = "returned"
  /\ main_ret' = ret
  /\ pc' = "main_done"
  /\ UNCHANGED <<input_file, config, execution_log, df, cleaned_df, masked_df, reports,
                 ret, exit_code>>
  /\ UNCHANGED <<harness_vars, fn_vars>>

\* a process that exits 0 whatever main returned
exit_status_always_zero(result) == 0

\* the __main__ block: sys.exit(0 if success else 1), and 1 on an exception
exit_status(result) == IF result = "True" THEN 0 ELSE 1

ProcessExit ==
  /\ pc = "main_done"
  /\ exit_code' = exit_status(main_ret)
  /\ pc' = "exited"
  /\ UNCHANGED <<input_file, config, execution_log, df, cleaned_df, masked_df, reports,
                 ret, main_ret>>
  /\ UNCHANGED <<harness_vars, fn_vars>>

Next == \/ MainStart
        \/ Stage1 \/ Stage2 \/ Stage3 \/ Stage4 \/ Stage5 \/ Stage6 \/ Stage7 \/ Stage8
        \/ WriteExecutionReport
        \/ MainReturn
        \/ ProcessExit

Spec == Init /\ [][Next]_vars

\* ------------------------------------------ clean_data applied and re-applied
CleanInit ==
  /\ PipelineIdle
  /\ cd_pc = "raw"
  /\ cd_raw \in RawDatasets
  /\ cd_first = NoClean /\ cd_second = NoClean
  /\ FnIdle

\* the CLEAN stage on a raw dataset that has the schema's columns
CleanOnce ==
  /\ cd_pc = "raw"
  /\ cd_first' = stage_4_clean(Frame(expected_cols, cd_raw))
  /\ cd_pc' = "cleaned"
  /\ UNCHANGED <<cd_raw, cd_second>>
  /\ UNCHANGED <<pipeline_vars, fn_vars>>

\* the CLEAN stage again, on the dataset the first run returned
CleanAgain ==
  /\ cd_pc = "cleaned"
  /\ cd_first.success
  /\ cd_second' = stage_4_clean(cd_first.cleaned_df)
  /\ cd_pc' = "recleaned"
  /\ UNCHANGED <<cd_raw, cd_first>>
  /\ UNCHANGED <<pipeline_vars, fn_vars>>

CleanNext == CleanOnce \/ CleanAgain

CleanSpec == CleanInit /\ [][CleanNext]_vars

\* ------------------------------- the components called on a value, a dataset
\* the cells the Cleaner's normalizers are called on
FnCells == UNION {RawCells(f) : f \in {"phone", "date_of_birth", "first_name"}}

\* a record with an email, a phone of few digits and an address, and neither
\* names nor a date of birth
SparseRow == [BlankRow EXCEPT !.email = Str(<<"a", "@", "b", ".", "c", "o">>),
                              !.phone = Str(<<"1", "2", "-", "3", "4">>),
                              !.address = Str(<<"1", " ", "M", "a", "i", "n">>)]

\* the datasets the Masker and the PII detector are called on: raw ones, and
\* the ones the Cleaner returns
FnDatasets ==
  LET raw == RawDatasets \cup SeqsUpTo(CoreRows \cup {SparseRow}, MaxRows)
             \cup {<<[BaseRow EXCEPT !.address = v]>> : v \in RawCells("address")}
             \cup {<<[SparseRow EXCEPT !.phone = v]>> : v \in RawCells("phone")}
             \cup {<<[BaseRow EXCEPT !.customer_id = v]>> :
                      v \in RawCells("customer_id") \cup {Str(<<"0">>), Str(<<"+", "1">>)}}
  IN raw \cup {clean_data(expected_cols, d).df : d \in raw}

FnInit ==
  /\ PipelineIdle
  /\ HarnessIdle
  /\ \/ fn_pc = "cell" /\ fn_arg \in FnCells
     \/ fn_pc = "dataset" /\ fn_arg \in FnDatasets
  /\ fn_out = <<>> /\ fn_again = <<>>

\* cleaner.normalize_phone(value)
NormalizePhone ==
  /\ fn_pc = "cell"
  /\ fn_out' = normalize_phone(fn_arg)
  /\ fn_pc' = "normalize_phone"
  /\ UNCHANGED <<fn_arg, fn_again>>
  /\ UNCHANGED <<pipeline_vars, harness_vars>>

\* cleaner.normalize_date(value)
NormalizeDate ==
  /\ fn_pc = "cell"
  /\ fn_out' = normalize_date(fn_arg)
  /\ fn_pc' = "normalize_date"
  /\ UNCHANGED <<fn_arg, fn_again>>
  /\ UNCHANGED <<pipeline_vars, harness_vars>>

\* cleaner.normalize_name(value)
NormalizeName ==
  /\ fn_pc = "cell"
  /\ fn_out' = normalize_name(fn_arg)
  /\ fn_pc' = "normalize_name"
  /\ UNCHANGED <<fn_arg, fn_again>>
  /\ UNCHANGED <<pipeline_vars, harness_vars>>

\* the MASK stage on a dataset that has the schema's columns
MaskOnce ==
  /\ fn_pc = "dataset"
  /\ fn_out' = stage_7_mask(Frame(expected_cols, fn_arg))
  /\ fn_pc' = "masked"
  /\ UNCHANGED <<fn_arg, fn_again>>
  /\ UNCHANGED <<pipeline_vars, harness_vars>>

\* a masker that counts its calls and masks account_status from the second on
MaskAgainCounting ==
  /\ fn_pc = "masked"
  /\ fn_again' = [stage_7_mask(Frame(expected_cols, fn_arg))
                    EXCEPT !.masked_df.rows = mask_dataframe_with_status(fn_arg)]
  /\ fn_pc' = "remasked"
  /\ UNCHANGED <<fn_arg, fn_out>>
  /\ UNCHANGED <<pipeline_vars, harness_vars>>

\* the MASK stage a second time on the same dataset
MaskAgain ==
  /\ fn_pc = "masked"
  /\ fn_again' = stage_7_mask(Frame(expected_cols, fn_arg))
  /\ fn_pc' = "remasked"
  /\ UNCHANGED <<fn_arg, fn_out>>
  /\ UNCHANGED <<pipeline_vars, harness_vars>>

\* the DETECT_PII stage on a dataset that has the schema's columns
DetectPII ==
  /\ fn_pc = "dataset"
  /\ fn_out' = stage_6_detect_pii(Frame(expected_cols, fn_arg))
  /\ fn_pc' = "detected"
  /\ UNCHANGED <<fn_arg, fn_again>>
  /\ UNCHANGED <<pipeline_vars, harness_vars>>

\* validator.validate_with_details(df, is_cleaned) on a dataset that has the
\* schema's columns
ValidateDetails ==
  /\ fn_pc = "dataset"
  /\ \E is_cleaned \in BOOLEAN :
       fn_out' = [is_cleaned |-> is_cleaned,
                  details |-> validate_with_details(expected_cols, fn_arg, is_cleaned)]
  /\ fn_pc' = "validated"
  /\ UNCHANGED <<fn_arg, fn_again>>
  /\ UNCHANGED <<pipeline_vars, harness_vars>>

FnNext == \/ NormalizePhone \/ NormalizeDate \/ NormalizeName
          \/ MaskOnce \/ MaskAgain
          \/ DetectPII
          \/ ValidateDetails

FnSpec == FnInit /\ [][FnNext]_vars

\* ---------------------------------------------------------------- claims
Logged(stage) == \E i \in 1..Len(execution_log) : execution_log[i].stage = stage

Failed(stage) ==
  \E i \in 1..Len(execution_log) :
    execution_log[i].stage = stage /\ execution_log[i].status = "FAILED"

AfterExecute == pc \in {"returned", "main_done", "exited"}

\* C1: the stages start only in the order LOAD .. SAVE, each at most once,
\* a stage starts only after every earlier stage succeeded, and once a stage
\* has failed no later stage starts and execute returns False.
C1_StagesInOrder ==
  /\ Len(execution_log) <= Len(StageOrder)
  /\ \A i \in 1..Len(execution_log) : execution_log[i].stage = StageOrder[i]
  /\ \A i \in 1..(Len(execution_log) - 1) : execution_log[i].status # "FAILED"
  /\ (\E s \in DOMAIN StageOrder : pc = StageOrder[s])
       => /\ pc = StageOrder[Len(execution_log) + 1]
          /\ \A i \in 1..Len(execution_log) : execution_log[i].status # "FAILED"
  /\ (\E i \in 1..Len(execution_log) : execution_log[i].status = "FAILED")
       => AfterExecute /\ ret = "False"

C1_Witness ==
  /\ pc = "exited" /\ ret = "False"
  /\ Len(execution_log) = 3
  /\ execution_log[2].status = "OK" /\ execution_log[3].status = "FAILED"

\* C2: a validation stage succeeds whenever the validator raises nothing,
\* whatever the number of failing rows: row issues only turn the logged
\* status from OK to ISSUES and the pipeline goes on to the next stage.
C2_ValidationNeverGates ==
  /\ (Logged("VALIDATE_RAW") /\ ~validate_raises(df.cols, df.rows))
       => /\ ~Failed("VALIDATE_RAW")
          /\ execution_log[3].status =
               (IF reports.validation_raw.failure_count = 0 THEN "OK" ELSE "ISSUES")
          /\ (pc = "CLEAN" \/ Logged("CLEAN"))
  /\ (Logged("VALIDATE_CLEAN") /\ ~validate_raises(cleaned_df.cols, cleaned_df.rows))
       => /\ ~Failed("VALIDATE_CLEAN")
          /\ execution_log[5].status =
               (IF reports.validation_clean.failure_count = 0 THEN "OK" ELSE "ISSUES")
          /\ (pc = "DETECT_PII" \/ Logged("DETECT_PII"))

C2_Witness ==
  /\ Logged("DETECT_PII")
  /\ reports.validation_raw.total_rows >= 1
  /\ reports.validation_raw.failure_count = reports.validation_raw.total_rows
  /\ reports.validation_clean.total_rows >= 1
  /\ reports.validation_clean.failure_count = reports.validation_clean.total_rows

\* a date of birth in YYYY-MM-DD form that parses
IsCanonicalDate(v) ==
  /\ v.k = "str" /\ Len(v.s) = 10
  /\ ShapeAt(v.s, 1, <<"d", "d", "d", "d", "-", "d", "d", "-", "d", "d">>)
  /\ normalize_date(v) = v

\* C3: every record clean_data returns has a non-empty, parseable date of
\* birth in YYYY-MM-DD form, every input record whose date of birth is
\* missing, blank, 'invalid_date' or matches no format is absent from the
\* output, and the five-record fixture with one 'invalid_date' gives four
\* records and rows_dropped = 1.
C3_UnparseableDobDropped ==
  (cd_pc # "raw" /\ cd_first.success) =>
    /\ \A j \in 1..Len(cd_first.cleaned_df.rows) :
         IsCanonicalDate(cd_first.cleaned_df.rows[j].date_of_birth)
    /\ Len(cd_first.cleaned_df.rows) =
         Cardinality({i \in 1..Len(cd_raw) : normalize_date(cd_raw[i].date_of_birth) # None})
    /\ cd_raw = sample_raw_data =>
         Len(cd_first.cleaned_df.rows) = 4 /\ cd_first.stats.rows_dropped = 1

IsCanonicalPhone(v) == v.k = "str" /\ (PhoneMatches(v.s) \/ v.s = UNKNOWN)

\* C4 as stated: every cleaned record's phone has the shape DDD-DDD-DDDD or
\* is [UNKNOWN].
C4_PhoneCanonical ==
  (cd_pc # "raw" /\ cd_first.success) =>
    \A j \in 1..Len(cd_first.cleaned_df.rows) :
      IsCanonicalPhone(cd_first.cleaned_df.rows[j].phone)

\* C4 amended: every cleaned record's phone has the shape DDD-DDD-DDDD, or
\* is [UNKNOWN], or is the unchanged text of a raw phone that has fewer than
\* ten digits.
C4_PhoneCanonicalOrShort ==
  (cd_pc # "raw" /\ cd_first.success) =>
    \A j \in 1..Len(cd_first.cleaned_df.rows) :
      \/ IsCanonicalPhone(cd_first.cleaned_df.rows[j].phone)
      \/ \E i \in j..Len(cd_raw) :
           /\ Len(OnlyDigits(PyStr(cd_raw[i].phone))) < 10
           /\ cd_first.cleaned_df.rows[j].phone = Str(PyStr(cd_raw[i].phone))

C4_Witness ==
  /\ cd_pc = "cleaned" /\ cd_first.success
  /\ \E j \in 1..Len(cd_first.cleaned_df.rows) :
       /\ cd_first.cleaned_df.rows[j].phone = Str(<<"5", "5", "5", "-", "1", "2", "3", "4">>)
       /\ cd_raw[j].phone = Str(<<"5", "5", "5", "-", "1", "2", "3", "4">>)

\* C5: running clean_data on the dataset clean_data returned reports no
\* normalization change in any category, also when the first run replaced
\* missing values by sentinels.
C5_CleaningStable ==
  (cd_pc = "recleaned" /\ cd_second.success) =>
    DOMAIN cd_second.stats.normalization_actions = {}

\* C6: a loaded dataset whose column list is not the schema makes the
\* pipeline fail no later than VALIDATE_RAW: CLEAN and the later stages do
\* not run and execute returns False.
C6_ColumnMismatchAborts ==
  (Logged("LOAD") /\ ~Failed("LOAD") /\ ~validate_raw(df.cols, df.rows).passed) =>
    /\ pc # "CLEAN" /\ ~Logged("CLEAN")
    /\ AfterExecute => ret = "False"

\* C7: the exit status is 0 exactly when execute returned True, and 1 when
\* the input file does not exist, when a stage failed, and when an
\* exception was raised in main or in execute.
C7_ExitStatus ==
  /\ pc # "exited" => exit_code = -1
  /\ pc = "exited" =>
       /\ exit_code \in {0, 1}
       /\ exit_code = 0 <=> ret = "True"
       /\ ~input_file.exists => exit_code = 1
       /\ (\E s \in DOMAIN StageOrder : Failed(StageOrder[s])) => exit_code = 1
       /\ (ret = "raised" \/ main_ret = "raised") => exit_code = 1

C7_Witness == pc = "exited" /\ exit_code = 1 /\ ret = "raised" /\ Logged("SAVE")

\* C8: the statistics of clean_data satisfy rows_remaining + rows_dropped =
\* rows_processed, rows_processed being the input's row count and
\* rows_remaining the row count of the returned dataset.
C8_RowAccounting ==
  /\ (cd_pc # "raw" /\ cd_first.success) =>
       /\ cd_first.stats.rows_remaining + cd_first.stats.rows_dropped
            = cd_first.stats.rows_processed
       /\ cd_first.stats.rows_processed = Len(cd_raw)
       /\ cd_first.stats.rows_remaining = Len(cd_first.cleaned_df.rows)
  /\ (cd_pc = "recleaned" /\ cd_second.success) =>
       /\ cd_second.stats.rows_remaining + cd_second.stats.rows_dropped
            = cd_second.stats.rows_processed
       /\ cd_second.stats.rows_processed = Len(cd_first.cleaned_df.rows)
       /\ cd_second.stats.rows_remaining = Len(cd_second.cleaned_df.rows)

C8_Witness ==
  /\ cd_pc = "cleaned" /\ cd_first.success
  /\ cd_first.stats.rows_dropped = 1 /\ cd_first.stats.rows_remaining = 1
  /\ \E i \in 1..Len(cd_raw) : isna(cd_raw[i].date_of_birth)

\* the income text, once everything but digits and dots is removed, is not
\* a decimal number
IncomeUnparseable(v) ==
  LET t == OnlyDigitsAndDots(PyStr(v))
  IN (\A i \in 1..Len(t) : t[i] = ".") \/ Cardinality({i \in 1..Len(t) : t[i] = "."}) > 1

\* C9: normalize_income returns an integer >= 0 for every raw income, and 0
\* when the value is missing, blank or not a decimal number after stripping;
\* so income is a non-negative integer in every cleaned record.
C9_IncomeNonNegative ==
  /\ \A i \in 1..Len(cd_raw) :
       LET v == normalize_income(cd_raw[i].income)
       IN /\ v.k = "int" /\ v.n >= 0
          /\ (isna(cd_raw[i].income) \/ Strip(PyStr(cd_raw[i].income)) = <<>>
              \/ IncomeUnparseable(cd_raw[i].income)) => v.n = 0
  /\ (cd_pc # "raw" /\ cd_first.success) =>
       \A j \in 1..Len(cd_first.cleaned_df.rows) :
         /\ cd_first.cleaned_df.rows[j].income.k = "int"
         /\ cd_first.cleaned_df.rows[j].income.n >= 0

C9_Witness ==
  /\ cd_pc = "cleaned" /\ Len(cd_raw) = 1 /\ Len(cd_first.cleaned_df.rows) = 1
  /\ cd_raw[1].income = Str(<<"-", "5", "0", "0">>)
  /\ cd_first.cleaned_df.rows[1].income = IntV(500)

\* C10: no field value makes a normalizer raise, so the CLEAN stage never
\* returns failure because of the content of a field.
C10_CleanNeverFailsOnContent ==
  /\ \A i \in 1..Len(cd_raw) :
       /\ normalize_phone(cd_raw[i].phone).k = "str"
       /\ normalize_date(cd_raw[i].date_of_birth).k \in {"str", "none"}
       /\ normalize_date(cd_raw[i].created_date).k \in {"str", "none"}
       /\ normalize_name(cd_raw[i].first_name).k = "str"
       /\ normalize_name(cd_raw[i].last_name).k = "str"
       /\ normalize_email(cd_raw[i].email).k = "str"
       /\ normalize_income(cd_raw[i].income).k = "int"
       /\ normalize_account_status(cd_raw[i].account_status).k = "str"
  /\ cd_pc # "raw" => cd_first.success /\ cd_first.status = "OK"
  /\ cd_pc = "recleaned" => cd_second.success /\ cd_second.status = "OK"

C10_Witness ==
  /\ cd_pc = "cleaned" /\ cd_first.success /\ Len(cd_raw) = 1
  /\ cd_raw[1].income = Str(<<"1", ".", "2", ".", "3">>)
  /\ cd_first.cleaned_df.rows[1].income = IntV(0)

\* C11: mask_dataframe returns as many records as it was given, in the same
\* order and with the same columns, and customer_id, income, account_status
\* and created_date of every record are the input's values.
C11_MaskKeepsNonPII ==
  fn_pc \in {"masked", "remasked"} /\ fn_out.success =>
    /\ fn_out.masked_df.cols = expected_cols
    /\ Len(fn_out.masked_df.rows) = Len(fn_arg)
    /\ \A i \in 1..Len(fn_arg) :
         /\ DOMAIN fn_out.masked_df.rows[i] = DOMAIN fn_arg[i]
         /\ \A f \in {"customer_id", "income", "account_status", "created_date"} :
              fn_out.masked_df.rows[i][f] = fn_arg[i][f]

C11_Witness ==
  /\ fn_pc = "masked" /\ fn_out.success /\ Len(fn_arg) = 2
  /\ fn_arg[1].customer_id # fn_arg[2].customer_id
  /\ fn_out.masked_df.rows[1].customer_id = fn_arg[1].customer_id
  /\ fn_out.masked_df.rows[2].customer_id = fn_arg[2].customer_id
  /\ fn_out.masked_df.rows[1].email # fn_arg[1].email
  /\ fn_out.masked_df.rows[1].first_name # fn_arg[1].first_name

\* a value the claims call missing, blank or [UNKNOWN] (in any letter case)
Absent(v) == isna(v) \/ Strip(PyStr(v)) = <<>> \/ Lower(PyStr(v)) = Lower(UNKNOWN)

HasAt(s) == \E i \in 1..Len(s) : s[i] = "@"

\* position of the first '@' of s
FirstAt(s) == CHOOSE i \in 1..Len(s) : s[i] = "@" /\ \A j \in 1..(i - 1) : s[j] # "@"

\* m is: first character of e's local part and '***' (or '*' alone when the
\* local part has fewer than two characters), '@', and e after its first '@'
MaskedAs(m, e) ==
  LET a == FirstAt(e)
  IN IF a > 2
     THEN /\ Len(m) = 5 + (Len(e) - a)
          /\ m[1] = e[1] /\ m[2] = "*" /\ m[3] = "*" /\ m[4] = "*" /\ m[5] = "@"
          /\ SubSeq(m, 6, Len(m)) = SubSeq(e, a + 1, Len(e))
     ELSE /\ Len(m) = 2 + (Len(e) - a)
          /\ m[1] = "*" /\ m[2] = "@"
          /\ SubSeq(m, 3, Len(m)) = SubSeq(e, a + 1, Len(e))

\* C12 as stated: an email with '@' is masked to the first character of its
\* local part and '***' ('*' for a one-character local part), '@', and the
\* domain exactly as in the input; a missing, blank or [UNKNOWN] one to [UNKNOWN].
C12_MaskEmailDomainAsIs ==
  fn_pc = "masked" /\ fn_out.success =>
    \A i \in 1..Len(fn_arg) :
      LET v == fn_arg[i].email
          m == fn_out.masked_df.rows[i].email
      IN IF Absent(v) THEN m = Str(UNKNOWN)
         ELSE HasAt(PyStr(v)) =>
                /\ m.k = "str"
                /\ FirstAt(PyStr(v)) > 1
                /\ MaskedAs(m.s, PyStr(v))

\* C12 amended: the same, of the value trimmed and lower-cased, and with '*'
\* also for an empty local part.
C12_MaskEmailLowered ==
  fn_pc = "masked" /\ fn_out.success =>
    \A i \in 1..Len(fn_arg) :
      LET v == fn_arg[i].email
          m == fn_out.masked_df.rows[i].email
      IN IF Absent(v) THEN m = Str(UNKNOWN)
         ELSE HasAt(PyStr(v)) =>
                m.k = "str" /\ MaskedAs(m.s, Lower(Strip(PyStr(v))))

C12_Witness ==
  /\ fn_pc = "masked" /\ fn_out.success /\ Len(fn_arg) = 1
  /\ fn_arg[1].email = Str(<<"P", "A", "T", "R", "I", "C", "I", "A", ".", "D", "A", "V", "I", "S", "@", "G", "M", "A", "I", "L", ".", "C", "O", "M">>)
  /\ fn_out.masked_df.rows[1].email = Str(<<"p", "*", "*", "*", "@", "g", "m", "a", "i", "l", ".", "c", "o", "m">>)

\* C13: mask_address returns [MASKED ADDRESS] for every input, so the masked
\* dataset has as many records as the dataset masked and every record's
\* address in it is [MASKED ADDRESS].
C13_AddressAlwaysMasked ==
  /\ fn_pc \in {"dataset", "masked"} =>
       \A i \in 1..Len(fn_arg) : mask_address(fn_arg[i].address) = Str(MASKED_ADDRESS)
  /\ fn_pc = "masked" =>
       /\ fn_out.success
       /\ Len(fn_out.masked_df.rows) = Len(fn_arg)
       /\ \A i \in 1..Len(fn_out.masked_df.rows) :
            fn_out.masked_df.rows[i].address = Str(MASKED_ADDRESS)

C13_Witness ==
  /\ fn_pc = "masked" /\ Len(fn_arg) = 2
  /\ isna(fn_arg[1].address) /\ ~isna(fn_arg[2].address)
  /\ fn_out.masked_df.rows[1].address = Str(MASKED_ADDRESS)
  /\ fn_out.masked_df.rows[2].address = Str(MASKED_ADDRESS)

\* C14: a phone that is not missing, blank or [UNKNOWN] is masked to
\* '***-***-' and its last four digits when it has at least four digits, to
\* '***-***-****' when it has fewer; a missing, blank or [UNKNOWN] one to
\* [UNKNOWN].
C14_MaskPhoneLastFour ==
  fn_pc = "masked" /\ fn_out.success =>
    \A i \in 1..Len(fn_arg) :
      LET v == fn_arg[i].phone
          m == fn_out.masked_df.rows[i].phone
          d == OnlyDigits(PyStr(v))
      IN IF Absent(v) THEN m = Str(UNKNOWN)
         ELSE /\ m.k = "str" /\ Len(m.s) = 12
              /\ SubSeq(m.s, 1, 8) = <<"*", "*", "*", "-", "*", "*", "*", "-">>
              /\ \A j \in 1..4 :
                   m.s[8 + j] = IF Len(d) >= 4 THEN d[Len(d) - 4 + j] ELSE "*"

C14_Witness ==
  /\ fn_pc = "masked" /\ fn_out.success /\ Len(fn_arg) = 2
  /\ fn_arg[1].phone = Str(<<"(", "5", "5", "5", ")", " ", "2", "3", "4", "-", "5", "6", "7", "8">>)
  /\ fn_out.masked_df.rows[1].phone = Str(<<"*", "*", "*", "-", "*", "*", "*", "-", "5", "6", "7", "8">>)
  /\ isna(fn_arg[2].phone)
  /\ fn_out.masked_df.rows[2].phone = Str(UNKNOWN)

GroupedAs(v, d) ==
  /\ v.k = "str" /\ Len(v.s) = 12 /\ Len(d) = 10
  /\ v.s[4] = "-" /\ v.s[8] = "-"
  /\ \A j \in 1..3 : v.s[j] = d[j] /\ v.s[4 + j] = d[3 + j]
  /\ \A j \in 1..4 : v.s[8 + j] = d[6 + j]

\* C16: normalize_phone gives [UNKNOWN] for a missing or blank input; with d
\* the digits of the input: d grouped 3-3-4 for ten digits, d without its
\* leading 1 for eleven digits starting with 1, the last ten digits of d in
\* every other case of more than ten, and the input unchanged for fewer than
\* ten; so ten digits always give the shape DDD-DDD-DDDD.
C16_NormalizePhoneCases ==
  fn_pc = "normalize_phone" =>
    LET d == OnlyDigits(PyStr(fn_arg))
        n == Len(d)
    IN /\ IF isna(fn_arg) \/ Strip(PyStr(fn_arg)) = <<>> THEN fn_out = Str(UNKNOWN)
          ELSE IF n = 10 THEN GroupedAs(fn_out, d)
          ELSE IF n = 11 /\ d[1] = "1" THEN GroupedAs(fn_out, Tail(d))
          ELSE IF n > 10 THEN GroupedAs(fn_out, SubSeq(d, n - 9, n))
          ELSE fn_out = Str(PyStr(fn_arg))
       /\ n = 10 => fn_out.k = "str" /\ PhoneMatches(fn_out.s)

C16_Witness ==
  /\ fn_pc = "normalize_phone"
  /\ fn_arg = Str(<<"5", "5", "5", "1", "2", "3", "4", "5", "6", "7", "8", "9">>)
  /\ fn_out = Str(<<"5", "1", "2", "-", "3", "4", "5", "-", "6", "7", "8", "9">>)

\* the date dt written YYYY-MM-DD: four, two and two digits, zero-padded
IsoText(dt) ==
  <<DigitChars[((dt.y \div 1000) % 10) + 1], DigitChars[((dt.y \div 100) % 10) + 1],
    DigitChars[((dt.y \div 10) % 10) + 1], DigitChars[(dt.y % 10) + 1], "-">>
  \o TwoDigits(dt.m) \o <<"-">> \o TwoDigits(dt.d)

\* the formats of the claim, in its order: YYYY-MM-DD, MM/DD/YYYY,
\* DD/MM/YYYY, YYYY/MM/DD, MM-DD-YYYY
ClaimedFormats == << [sep |-> "-", y |-> 1, m |-> 2, d |-> 3],
                     [sep |-> "/", y |-> 3, m |-> 1, d |-> 2],
                     [sep |-> "/", y |-> 3, m |-> 2, d |-> 1],
                     [sep |-> "/", y |-> 1, m |-> 2, d |-> 3],
                     [sep |-> "-", y |-> 3, m |-> 1, d |-> 2] >>

Parses(s, i) == strptime(s, ClaimedFormats[i]).k = "date"

Capitalized(s) == [i \in 1..Len(s) |->
                     IF i = 1 \/ IsSpace(s[i - 1]) THEN ToUpper(s[i]) ELSE ToLower(s[i])]

\* C18: for every name that is not missing or blank, normalize_name returns
\* the trimmed name with, in each whitespace-separated token, the first letter
\* upper case and every other letter lower case (also after an apostrophe, a
\* hyphen or a digit); a missing or blank name gives [UNKNOWN]
C18_NormalizeNameTokens ==
  fn_pc = "normalize_name" =>
    IF isna(fn_arg) \/ Falsy(fn_arg) \/ Strip(PyStr(fn_arg)) = <<>>
    THEN fn_out = Str(UNKNOWN)
    ELSE fn_out = Str(Capitalized(Strip(PyStr(fn_arg))))

\* ------------------------------------------------------------------- C19
\* a value that is neither missing nor blank
Populated(v) == ~isna(v) /\ Strip(PyStr(v)) # <<>>

\* every record of the dataset has email, phone and address populated
AllPopulated(rows) ==
  \A i \in 1..Len(rows) :
    Populated(rows[i].email) /\ Populated(rows[i].phone) /\ Populated(rows[i].address)

\* every record is listed as high-risk and the risk level is CRITICAL
AllHighRisk(rows, out) ==
  /\ out.success
  /\ Len(out.pii_data.high_risk_rows) = Len(rows)
  /\ \A i \in 1..Len(rows) : out.pii_data.high_risk_rows[i].row = i + 1
  /\ out.risk.high_risk_count = Len(rows)
  /\ out.risk.total_rows = Len(rows)
  /\ out.risk.risk_level = "CRITICAL"

\* C19 as stated: for every non-empty dataset whose records all have email,
\* phone and address populated, every record is high-risk and the level is
\* CRITICAL
C19_PopulatedAllHighRisk ==
  (fn_pc = "detected" /\ fn_arg # <<>> /\ AllPopulated(fn_arg)) => AllHighRisk(fn_arg, fn_out)

\* C19: for every non-empty dataset whose records all have email and address
\* populated and a phone that holds at least three consecutive digits, every
\* record is high-risk and the level is CRITICAL
C19_PopulatedDigitsAllHighRisk ==
  (/\ fn_pc = "detected" /\ fn_arg # <<>> /\ AllPopulated(fn_arg)
   /\ \A i \in 1..Len(fn_arg) : HasThreeDigits(PyStr(fn_arg[i].phone)))
    => AllHighRisk(fn_arg, fn_out)

\* a dataset detected as all high-risk on email, phone and address alone
C19_Witness ==
  /\ fn_pc = "detected" /\ fn_arg # <<>> /\ AllPopulated(fn_arg)
  /\ \A i \in 1..Len(fn_arg) : HasThreeDigits(PyStr(fn_arg[i].phone))
  /\ fn_out.pii_data.high_risk_rows[1].pii_types = <<"email", "phone", "address">>
  /\ fn_out.risk.risk_level = "CRITICAL"

\* ------------------------------------------------------------------- C20
\* C20: for every dataset of at least one row, the risk level is CRITICAL
\* exactly when the high-risk rows are strictly more than half of the rows and
\* HIGH otherwise (also when nothing was detected), no other level exists,
\* and high_risk_count never exceeds total_rows
C20_RiskLevelByHalf ==
  (fn_pc = "detected" /\ fn_arg # <<>>) =>
    /\ fn_out.success
    /\ fn_out.risk.total_rows = Len(fn_arg)
    /\ fn_out.risk.high_risk_count = Len(fn_out.pii_data.high_risk_rows)
    /\ fn_out.risk.high_risk_count <= fn_out.risk.total_rows
    /\ fn_out.risk.risk_level \in {"CRITICAL", "HIGH"}
    /\ fn_out.risk.risk_level = "CRITICAL"
         <=> 2 * fn_out.risk.high_risk_count > fn_out.risk.total_rows
    /\ (\A i \in 1..Len(fn_arg) : RowPII(fn_arg[i]) = <<>>) => fn_out.risk.risk_level = "HIGH"

\* a dataset of which exactly half of the rows are high-risk, rated HIGH
C20_Witness ==
  /\ fn_pc = "detected"
  /\ Len(fn_arg) = 2
  /\ fn_out.risk.high_risk_count = 1
  /\ fn_out.risk.risk_level = "HIGH"

\* ------------------------------------------------------------------- C21
\* C21: whenever the configuration cannot supply the paths (file absent or
\* unreadable, empty, or without the paths section) and the default input
\* file exists, main can go on to construct and run the pipeline (nothing but
\* a failure to set up logging or the output directory stops it): a
\* configuration problem alone does not make the process fail
C21_ConfigFallsBack ==
  (pc = "main" /\ config \in {"unreadable", "empty", "no_paths"} /\ input_file.exists)
    => ENABLED (MainStart /\ pc' = "LOAD")

\* ------------------------------------------------------------------- C22
\* the field an issue text is about
IssueField(issue) ==
  CASE issue \in {"customer_id must be integer", "customer_id must be positive"} -> "customer_id"
    [] issue = "Invalid email format" -> "email"
    [] issue \in {"Phone must be XXX-XXX-XXXX format", "Phone number too short"} -> "phone"
    [] OTHER -> "account_status"

\* the fields of record r that the claim calls failing, in the claimed order
FailingFields(r, is_cleaned) ==
  LET bad(f) ==
        CASE f = "customer_id" -> ~PyInt(r.customer_id).ok \/ PyInt(r.customer_id).n <= 0
          [] f = "email" -> Populated(r.email) /\ ~EmailMatches(PyStr(r.email))
          [] f = "phone" ->
               /\ Populated(r.phone)
               /\ IF is_cleaned THEN ~PhoneMatches(PyStr(r.phone))
                  ELSE Len(OnlyDigits(PyStr(r.phone))) < 10
          [] OTHER ->
               /\ Populated(r.account_status)
               /\ Lower(Strip(PyStr(r.account_status)))
                    \notin {<<"a", "c", "t", "i", "v", "e">>,
                            <<"i", "n", "a", "c", "t", "i", "v", "e">>,
                            <<"s", "u", "s", "p", "e", "n", "d", "e", "d">>}
  IN SelectSeq(<<"customer_id", "email", "phone", "account_status">>, bad)

\* the failed_rows entries reported for the record at position i
EntriesOf(failed_rows, i) == SelectSeq(failed_rows, LAMBDA e : e.row_number = i + 1)

\* C22: validate_with_details reports a record as failed exactly when its
\* customer_id is not a positive integer, or its email is present and
\* malformed, or its phone is present and (cleaned) not DDD-DDD-DDDD or (raw)
\* of fewer than ten digits, or its account_status is present and not one of
\* the three; the issues come in the order customer_id, email, phone,
\* account_status, and is_cleaned changes the phone check only
C22_FailedIffIssue ==
  fn_pc = "validated" =>
    /\ ~fn_out.details.raised
    /\ \A i \in 1..Len(fn_arg) :
         IF FailingFields(fn_arg[i], fn_out.is_cleaned) = <<>>
         THEN EntriesOf(fn_out.details.failed_rows, i) = <<>>
         ELSE /\ Len(EntriesOf(fn_out.details.failed_rows, i)) = 1
              /\ [j \in 1..Len(EntriesOf(fn_out.details.failed_rows, i)[1].issues) |->
                    IssueField(EntriesOf(fn_out.details.failed_rows, i)[1].issues[j])]
                   = FailingFields(fn_arg[i], fn_out.is_cleaned)

\* a raw record reported with an issue on each of its four checked fields
C22_Witness ==
  /\ fn_pc = "validated"
  /\ ~fn_out.is_cleaned
  /\ \E e \in 1..Len(fn_out.details.failed_rows) :
       fn_out.details.failed_rows[e].issues
         = <<"customer_id must be integer", "Invalid email format",
             "Phone number too short", "Invalid account_status">>

\* ------------------------------------------------------------------- C23
\* the accounting of a validate_with_details result d for the dataset rows
ConsistentDetails(cols, rows, d, is_cleaned) ==
  /\ d.total_rows = Len(rows)
  /\ d.failure_count = Len(d.failed_rows)
  /\ d.passed_rows + d.failure_count = d.total_rows
  /\ rows = <<>> => d.pass_rate = <<0, 1>>
  /\ \A j \in 1..Len(d.failed_rows) :
       /\ d.failed_rows[j].row_number \in 2..(Len(rows) + 1)
       /\ d.failed_rows[j].data = rows[d.failed_rows[j].row_number - 1]
       /\ d.failed_rows[j].issues # <<>>
       /\ d.failed_rows[j].issues
            = RowIssues(cols, rows[d.failed_rows[j].row_number - 1], is_cleaned)
  /\ \A j \in 1..Len(d.failed_rows), k \in 1..Len(d.failed_rows) :
       j < k => d.failed_rows[j].row_number < d.failed_rows[k].row_number
  /\ \A i \in 1..Len(rows) :
       RowIssues(cols, rows[i], is_cleaned) # <<>>
         => \E j \in 1..Len(d.failed_rows) : d.failed_rows[j].row_number = i + 1

\* C23: the result of validate_with_details has total_rows = number of
\* records, failure_count = length of failed_rows, passed_rows + failure_count
\* = total_rows and pass rate 0 on an empty dataset; failed_rows holds exactly
\* the records with an issue, once each, in dataset order, numbered position
\* + 2; on the Cleaner's output the numbers follow the renumbered rows
C23_DetailsAccounting ==
  /\ ~reports.validation_raw.raised
       => ConsistentDetails(df.cols, df.rows, reports.validation_raw, FALSE)
  /\ ~reports.validation_clean.raised
       => ConsistentDetails(cleaned_df.cols, cleaned_df.rows, reports.validation_clean, TRUE)

\* the first raw record was dropped, and the first surviving record, which
\* was the second of the input, is reported as row 2
C23_Witness ==
  /\ ~reports.validation_clean.raised
  /\ Len(df.rows) = 2
  /\ ~KeepRow(df.rows[1])
  /\ Len(cleaned_df.rows) = 1
  /\ Len(reports.validation_clean.failed_rows) = 1
  /\ reports.validation_clean.failed_rows[1].row_number = 2
  /\ reports.validation_clean.failed_rows[1].data = cleaned_df.rows[1]
  /\ reports.validation_raw.failure_count = 1

\* ------------------------------------------------------------------- C24
\* the fields of a normalization category and their normalizer
CategoryFields(cat) ==
  CASE cat = "phone_format" -> {"phone"}
    [] cat = "date_format" -> {"date_of_birth", "created_date"}
    [] cat = "name_case" -> {"first_name", "last_name"}
    [] cat = "income_numeric" -> {"income"}
    [] cat = "email_lowercase" -> {"email"}
    [] OTHER -> {"account_status"}

Normalized(f, v) ==
  CASE f = "phone" -> normalize_phone(v)
    [] f \in {"date_of_birth", "created_date"} -> normalize_date(v)
    [] f \in {"first_name", "last_name"} -> normalize_name(v)
    [] f = "income" -> normalize_income(v)
    [] f = "email" -> normalize_email(v)
    [] OTHER -> normalize_account_status(v)

\* the values of a category that the claim allows to be counted: not a
\* missing marker, and normalized to something else
Countable(rows, cat) ==
  {<<i, f>> \in (1..Len(rows)) \X CategoryFields(cat) :
     /\ Populated(rows[i][f])
     /\ PyStr(Normalized(f, rows[i][f])) # PyStr(rows[i][f])}

\* the change count clean_data reports for a category (absent means 0)
ChangeCount(stats, cat) ==
  IF cat \in DOMAIN stats.normalization_actions THEN stats.normalization_actions[cat] ELSE 0

\* C24: in clean_data every category's change count counts only values that
\* were not a missing marker (NaN or blank) and that normalization changed:
\* a missing value replaced by [UNKNOWN], 0 or unknown is never counted
C24_MissingNeverCounted ==
  (cd_pc = "cleaned" /\ cd_first.success) =>
    \A cat \in {"phone_format", "date_format", "name_case", "income_numeric",
                "email_lowercase", "account_status"} :
      ChangeCount(cd_first.stats, cat) <= Cardinality(Countable(cd_raw, cat))

\* ------------------------------------------------------------------- C25
\* the tags the claim gives a record, in the claimed order
ClaimedTags(r) ==
  LET tagged(t) ==
        CASE t = "email" -> Populated(r.email)
          [] t = "phone" -> ~isna(r.phone) /\ HasThreeDigits(PyStr(r.phone))
          [] t = "address" -> Populated(r.address)
          [] t = "dob" -> ~isna(r.date_of_birth) /\ LooksLikeDate(PyStr(r.date_of_birth))
          [] OTHER -> Populated(r.first_name) \/ Populated(r.last_name)
  IN SelectSeq(<<"email", "phone", "address", "dob", "name">>, tagged)

\* the row numbers of the records the claim tags with t, in dataset order
ClaimedRows(rows, t) ==
  SelectSeq([i \in 1..Len(rows) |-> i + 1],
            LAMBDA n : \E j \in 1..Len(ClaimedTags(rows[n - 1])) : ClaimedTags(rows[n - 1])[j] = t)

\* the row numbers of a list of (row_number, value) pairs
RowNumbers(found) == [k \in 1..Len(found) |-> found[k][1]]

\* C25: detect_pii tags each record in the order email, phone, address, dob,
\* name: email and address iff non-missing and non-blank, phone iff
\* non-missing with three consecutive digits, dob iff non-missing with a date
\* shape, name iff a name is non-blank; a record is high-risk iff it has at
\* least 3 tags, pii_count is the length of its tag list, and each field list
\* holds exactly the tagged records' (row_number, value) pairs in order
C25_TagsByPresence ==
  (fn_pc = "detected" /\ fn_arg # <<>>) =>
    /\ fn_out.success
    /\ RowNumbers(fn_out.pii_data.emails) = ClaimedRows(fn_arg, "email")
    /\ RowNumbers(fn_out.pii_data.phones) = ClaimedRows(fn_arg, "phone")
    /\ RowNumbers(fn_out.pii_data.addresses) = ClaimedRows(fn_arg, "address")
    /\ RowNumbers(fn_out.pii_data.dobs) = ClaimedRows(fn_arg, "dob")
    /\ RowNumbers(fn_out.pii_data.names) = ClaimedRows(fn_arg, "name")
    /\ \A k \in 1..Len(fn_out.pii_data.emails) :
         fn_out.pii_data.emails[k][2] = fn_arg[fn_out.pii_data.emails[k][1] - 1].email
    /\ \A k \in 1..Len(fn_out.pii_data.phones) :
         fn_out.pii_data.phones[k][2] = fn_arg[fn_out.pii_data.phones[k][1] - 1].phone
    /\ \A k \in 1..Len(fn_out.pii_data.addresses) :
         fn_out.pii_data.addresses[k][2] = fn_arg[fn_out.pii_data.addresses[k][1] - 1].address
    /\ \A k \in 1..Len(fn_out.pii_data.dobs) :
         fn_out.pii_data.dobs[k][2] = fn_arg[fn_out.pii_data.dobs[k][1] - 1].date_of_birth
    /\ [k \in 1..Len(fn_out.pii_data.high_risk_rows) |-> fn_out.pii_data.high_risk_rows[k].row]
         = SelectSeq([i \in 1..Len(fn_arg) |-> i + 1],
                     LAMBDA n : Len(ClaimedTags(fn_arg[n - 1])) >= 3)
    /\ \A k \in 1..Len(fn_out.pii_data.high_risk_rows) :
         /\ fn_out.pii_data.high_risk_rows[k].pii_types
              = ClaimedTags(fn_arg[fn_out.pii_data.high_risk_rows[k].row - 1])
         /\ fn_out.pii_data.high_risk_rows[k].pii_count
              = Len(fn_out.pii_data.high_risk_rows[k].pii_types)

\* ------------------------------------------------------------------- C26
\* C26: execute never lets an exception out: whatever is raised in a stage or
\* while pipeline_execution_report.txt is written ends as a FAILED entry of
\* the execution log and the return value False
C26_NoFaultEscapes ==
  /\ ret \in {"none", "True", "False"}
  /\ ret = "False" =>
       /\ execution_log # <<>>
       /\ execution_log[Len(execution_log)].status = "FAILED"
  /\ ret = "True" => \A k \in 1..Len(execution_log) : execution_log[k].status # "FAILED"

\* ------------------------------------------------------------------- C27
\* C27: for every input file with the ten-column schema, whatever its rows
\* (none at all, or all of them dropped by cleaning), no stage fails on the
\* data: a FAILED entry can only come from reading the input or writing a file
\* (LOAD, PROFILE, SAVE), so with every read and write succeeding execute
\* passes all eight stages
C27_DataNeverHalts ==
  input_file.cols = expected_cols =>
    \A k \in 1..Len(execution_log) :
      execution_log[k].status = "FAILED" => execution_log[k].stage \in {"LOAD", "PROFILE", "SAVE"}

\* ------------------------------------------------------------------- C28
\* the positions, in the raw dataset, of the records that survive cleaning
Survivors(rows) ==
  SelectSeq([i \in 1..Len(rows) |-> i], LAMBDA i : KeepRow(CleanRow(rows[i])))

\* is the record numbered n reported in failed_rows
Reported(d, n) == \E j \in 1..Len(d.failed_rows) : d.failed_rows[j].row_number = n

\* C28: cleaning never introduces validation issues: a record without issue
\* in the raw validation that survives cleaning has no issue in the cleaned
\* validation, also when its raw email, phone or account_status is missing;
\* so the cleaned validation never reports more failed rows than the raw one
C28_CleaningAddsNoIssue ==
  (~reports.validation_raw.raised /\ ~reports.validation_clean.raised) =>
    /\ Len(cleaned_df.rows) = Len(Survivors(df.rows))
    /\ \A k \in 1..Len(cleaned_df.rows) :
         ~Reported(reports.validation_raw, Survivors(df.rows)[k] + 1)
           => ~Reported(reports.validation_clean, k + 1)
    /\ reports.validation_clean.failure_count <= reports.validation_raw.failure_count

\* ------------------------------------------------------------------- C29
\* what the claim lets a masked email show of the value v: its first
\* character, whether its local part has more than one character, and the
\* text after its first '@' (none when there is no '@')
Shown(v) ==
  LET e == Lower(Strip(PyStr(v)))
      a == IF HasAt(e) THEN FirstAt(e) ELSE Len(e) + 1
  IN [first |-> IF e = <<>> THEN <<>> ELSE <<e[1]>>,
      long |-> a - 1 > 1,
      at |-> HasAt(e),
      domain |-> SubSeq(e, a + 1, Len(e))]

\* C29: two email values, neither missing nor [UNKNOWN], that agree on the
\* first character, on the one-or-more-characters class of the local part and
\* on the text after the first '@' are masked to the same value, with or
\* without an '@' in them
C29_MaskedEmailShowsNoMore ==
  (fn_pc = "masked" /\ fn_out.success) =>
    \A i \in 1..Len(fn_arg) : \A w \in RawCells("email") :
      (~Absent(fn_arg[i].email) /\ ~Absent(w) /\ Shown(w) = Shown(fn_arg[i].email))
        => mask_email(w) = fn_out.masked_df.rows[i].email

\* ------------------------------------------------------------------- C30
\* the tags of a high-risk entry that do not stand for a field the raw record
\* r lacked
RawBacked(e, r) ==
  SelectSeq(e.pii_types,
            LAMBDA t : /\ t = "email" => Populated(r.email)
                       /\ t = "name" => Populated(r.first_name) \/ Populated(r.last_name))

\* C30: in the pipeline, where DETECT_PII runs on the Cleaner's output, a
\* record whose raw email is missing or blank is not listed in emails and a
\* record whose raw names are both missing is not listed in names, so the
\* Cleaner's [UNKNOWN] raises no coverage and makes no row high-risk
C30_SentinelsNotDetected ==
  (Logged("DETECT_PII") /\ ~Failed("DETECT_PII")) =>
    /\ \A k \in 1..Len(cleaned_df.rows) :
         /\ ~Populated(df.rows[Survivors(df.rows)[k]].email)
              => \A j \in 1..Len(reports.pii_data.emails) :
                   reports.pii_data.emails[j][1] # k + 1
         /\ (~Populated(df.rows[Survivors(df.rows)[k]].first_name)
             /\ ~Populated(df.rows[Survivors(df.rows)[k]].last_name))
              => \A j \in 1..Len(reports.pii_data.names) :
                   reports.pii_data.names[j][1] # k + 1
    /\ \A j \in 1..Len(reports.pii_data.high_risk_rows) :
         Len(RawBacked(reports.pii_data.high_risk_rows[j],
                       df.rows[Survivors(df.rows)[reports.pii_data.high_risk_rows[j].row - 1]])) >= 3

====
